---- MODULE Spec2Model ----
(***************************************************************************)
(* Session automation workflow engine of the Automessage repository.       *)
(*                                                                         *)
(* The repository holds four variants of the same engine:                  *)
(*   "basic"    src/messenger.js lines 1-446   (captcha solver hook)       *)
(*   "enhanced" src/messenger.js lines 448-1211 (solveCaptcha chain)       *)
(*   "facebook" src/unnamed/part_000            (login inside delivery)    *)
(*   "apify"    src/unnamed/part_001            (Actor.main, dataset)      *)
(* One run of the orchestrator of one variant is one behaviour.  Every     *)
(* action is one stretch of code between two suspension points; what the   *)
(* driven page, the file system and the result sink answer is drawn        *)
(* nondeterministically.                                                   *)
(***************************************************************************)
EXTENDS Integers, Sequences, FiniteSets, TLC

VARIABLES
    variant,      \* which of the four source variants runs
    headless,     \* process.env.HEADLESS === 'true'
    optHeadless,  \* the headless launch option / actor input is true
    apiKey,       \* process.env.RECAPTCHA_SOLVER_API_KEY is set
    confirmSel,   \* options.checkSentConfirmationSelector is configured
    hookKind,     \* basic variant: "default" hook or a "custom" one
    profiles,     \* the target list, a sequence of profile ids
    pc,           \* position of the single flow of control
    i,            \* index of the profile being processed (0 before the loop)
    browser,      \* "none" | "open" | "closed"
    closeCount,   \* number of browser.close() calls
    fatal,        \* an exception is propagating out of the orchestrator
    results,      \* the orchestrator's results array
    sink,         \* records written to results.jsonl / the dataset
    ret,          \* what the caller of the orchestrator receives
    store,        \* the session store entry of the identity
    page,         \* challenge markers of the driven page while a detection
                  \* or a resolution is pending (CleanPage when nothing
                  \* reads them)
    res,          \* the Delivery Result sendMessageToProfile returned
    solverCaller, \* who awaits solveCaptcha / the hook
    loginCaller,  \* who awaits performFacebookLogin
    solved,       \* outcome of the last solveCaptcha / hook call:
                  \* "none" | "true" | "false" | "threw"
    scDetect,     \* detection predicate at the last resolver entry
    scStrategies, \* strategies invoked by the last resolver call
    manualWaits,  \* manual waits entered by the last resolver call
    scTrace,      \* the strategies the last resolver call invoked, in order
    loginResult,  \* "none" | "reused" | "fresh" | "failed"
    loginError,   \* what the error of the last failed login names
    credOps,      \* interactions with the credential fields and submit
    credSubmits,  \* credential submissions
    credInSend,   \* credential interactions made by sendMessageToProfile
    saveCount,    \* saveCookies calls
    saveInSend,   \* saveCookies calls made by sendMessageToProfile
    verified,     \* post-login authenticated checks that passed
    solverCalls,  \* resolver / hook invocations
    navCount,     \* navigations to a profile url
    attempt,      \* apify: navigation attempts of the current delivery
    btn,          \* apify: messageButtonPresent
    sent,         \* apify: messageSent
    typed,        \* the message was typed in the current delivery
    triggers,     \* send triggers issued in the current delivery
    challenge,    \* current delivery: "none" | "cleared" | "unresolved"
    steps,        \* the steps the current delivery has executed, in order
    file,         \* Session Store: the record of the identity, with its cookies
    saves,        \* Session Store: the cookie sets saved so far, in order
    loaded,       \* Session Store: outcome of loadCookies since the last save
    setCalled,    \* Session Store: whether that loadCookies called page.setCookie
    applied,      \* Session Store: the cookies that call was given
    sentCheck,    \* current delivery: the sent indicator, "NA" | "present" | "absent"
    loginAlert,   \* the error element read after a failed login: "NA" | "text" | "none"
    loginSteps,   \* the steps the login has executed, in order
    flows,        \* per output channel, the inputs whose values were written to it
    strategy,     \* one call of a challenge strategy, with its locals
    dispatch,     \* current delivery: what the send step dispatched to the page
    compose,      \* current delivery: content of the compose surface, in order
    cookieDir,    \* COOKIE_DIR / the key-value store: file name -> cookie set
    pauses        \* the orchestrator loop seen as pauses and navigations

cfgVars   == <<variant, headless, optHeadless, apiKey, confirmSel, hookKind,
               profiles>>
runVars   == <<pc, i, browser, closeCount, fatal, results, sink, ret>>
solveVars == <<solverCaller, solved, scDetect, scStrategies, manualWaits,
               scTrace, solverCalls>>
loginVars == <<loginCaller, loginResult, loginError, credOps, credSubmits,
               credInSend, saveCount, saveInSend, verified, store>>
sendVars  == <<res, navCount, attempt, btn, sent, typed, triggers, challenge,
               steps>>
cookieVars == <<file, saves, loaded, setCalled, applied>>
noteVars  == <<sentCheck, loginAlert, loginSteps, flows>>
composeVars == <<dispatch, compose>>
unitVars  == <<cookieDir, pauses>>
vars      == <<cfgVars, runVars, solveVars, loginVars, sendVars, page,
               cookieVars, noteVars, strategy, composeVars, unitVars>>

(***************************************************************************)
(* Bounds of the model.                                                    *)
(***************************************************************************)
MaxProfiles == 2
MaxSaves == 2

\* The cookies a browser session may hold.
CookieNames == {"c_user", "xs"}

Variants == {"basic", "enhanced", "facebook", "apify"}

\* The output channels of a run and the inputs whose values may reach them.
Channels == {"log", "result", "sink", "store", "field"}
NoFlows == [c \in Channels |-> {}]

\* No strategy call in progress.
NoStrategy == [fn |-> "none"]

\* Nothing was dispatched by the send step yet.
NoDispatch == [control |-> FALSE, path |-> FALSE, clicks |-> 0, enters |-> 0]

\* No orchestrator loop is being followed.
NoPauses == [at |-> "none"]

\* Channel c of f after values of the inputs srcs were written to it.
Wrote(f, c, srcs) == [f EXCEPT ![c] = @ \cup srcs]

\* What the start of a run prints: the message, the number of profiles and
\* the headless flag; part_000 and part_001 print the login email as well.
StartLog(v) == CASE v = "basic"    -> {}
                 [] v = "enhanced" -> {"message", "profiles", "headless"}
                 [] OTHER          -> {"email", "message", "profiles", "headless"}

\* The inputs a Delivery Result is built from: the profile, the text of the
\* error on a failure, and in part_000 and part_001 the head of the message
\* on a success.
ResultSources(r) ==
    {"profile"} \cup (IF ~r.success THEN {"error_text"}
                      ELSE IF variant \in {"facebook", "apify"} THEN {"message"}
                      ELSE {})

\* A result returned, appended to the sink and printed.
Recorded(f, srcs) ==
    Wrote(Wrote(Wrote(f, "result", srcs), "sink", srcs), "log",
          {"profile"} \cup (srcs \ {"message"}))

NoResult == [profileId |-> 0, success |-> FALSE, durationMs |-> FALSE,
             error |-> "none", btn |-> "NA", sent |-> "NA"]

(***************************************************************************)
(* The driven page, as far as challenge detection reads it.                *)
(*   frame   : an iframe whose src contains "recaptcha"                    *)
(*   overlay : an element matching .captcha, [id*=captcha], [class*=...]   *)
(*   text    : body text contains "security check" or "verify"             *)
(***************************************************************************)
Pages == [frame : BOOLEAN, overlay : BOOLEAN, text : BOOLEAN]

\* The body-text heuristic is read by the facebook and apify variants only.
PagesOf(v) == IF v \in {"facebook", "apify"}
              THEN Pages
              ELSE {p \in Pages : p.text = FALSE}

CleanPage == [frame |-> FALSE, overlay |-> FALSE, text |-> FALSE]

\* hasRecaptcha || overlay: the detection predicate of the resolver.
captchaPresent(p) == p.frame \/ p.overlay

\* performFacebookLogin's detection: hasRecaptcha || hasCaptchaText.
loginCaptchaPresent(p) == p.frame \/ p.text \/ p.overlay

\* Whether the launched browser is headless.  launchBrowser of messenger.js:
\* HEADLESS === 'true' or the launch option; part_000: HEADLESS only;
\* part_001: the actor input `headless`.
sessionHeadless == CASE variant = "apify"    -> optHeadless
                     [] variant = "facebook" -> headless
                     [] OTHER                -> headless \/ optHeadless

\* The record of an identity in the Session Store: absent, unreadable, or a
\* stored array of cookies.
AbsentFile == [kind |-> "absent", cookies |-> {}]
CorruptFile == [kind |-> "corrupt", cookies |-> {}]
StoredFile(cookies) == [kind |-> "json", cookies |-> cookies]
Files == {AbsentFile, CorruptFile} \cup {StoredFile(c) : c \in SUBSET CookieNames}

\* The record behind a label of `store`.
StoreFile(st) == CASE st = "absent"  -> AbsentFile
                   [] st = "corrupt" -> CorruptFile
                   [] OTHER          -> StoredFile(CookieNames)

\* Fault seeded into saveCookies: the new cookies are added to the stored ones.
saveCookies_merged(f, cookies) == StoredFile(f.cookies \cup cookies)

\* saveCookies: fs.writeJson(path, cookies) / keyValueStore.setValue(key,
\* cookies) replace the record with the page's cookies.
saveCookies(f, cookies) == StoredFile(cookies)

\* Fault seeded into loadCookies: an absent record is read as an empty set.
loadCookies_absentAsEmpty(v, f, setOk) ==
    IF f.kind = "corrupt"
    THEN [result |-> IF v = "apify" THEN "false" ELSE "threw",
          setCookie |-> FALSE, cookies |-> {}]
    ELSE [result |-> IF setOk THEN "true" ELSE "false",
          setCookie |-> TRUE, cookies |-> f.cookies]

\* loadCookies(page, email) on record f; setOk: page.setCookie accepts.
\* messenger.js, part_000: pathExists, then readJson outside the try, then
\* setCookie inside it.  part_001: getValue, the Array.isArray test and
\* setCookie all inside one try whose catch returns false.
loadCookies(v, f, setOk) ==
    IF f.kind = "json"
    THEN [result |-> IF setOk THEN "true" ELSE "false",
          setCookie |-> TRUE, cookies |-> f.cookies]
    ELSE IF f.kind = "corrupt" /\ v # "apify"
         THEN [result |-> "threw", setCookie |-> FALSE, cookies |-> {}]
         ELSE [result |-> "false", setCookie |-> FALSE, cookies |-> {}]


(***************************************************************************)
(* Init: the state when the orchestrator is entered.                       *)
(***************************************************************************)
Init ==
    /\ variant \in Variants
    /\ headless \in (IF variant = "apify" THEN {FALSE} ELSE BOOLEAN)
    /\ optHeadless \in (IF variant \in {"enhanced", "apify"} THEN BOOLEAN ELSE {FALSE})
    /\ apiKey \in (IF variant = "enhanced" THEN BOOLEAN ELSE {FALSE})
    /\ confirmSel \in (IF variant \in {"basic", "enhanced"} THEN BOOLEAN ELSE {FALSE})
    /\ hookKind \in (IF variant = "basic" THEN {"default", "custom"} ELSE {"none"})
    /\ profiles \in {[k \in 1..m |-> k] : m \in 0..MaxProfiles}
    /\ store \in {"absent", "old", "corrupt"}
    /\ pc = "start"
    /\ i = 0
    /\ browser = "none"
    /\ closeCount = 0
    /\ fatal = FALSE
    /\ results = <<>>
    /\ sink = <<>>
    /\ ret = [kind |-> "pending", results |-> <<>>]
    /\ page = CleanPage
    /\ res = NoResult
    /\ solverCaller = "none"
    /\ loginCaller = "none"
    /\ solved = "none"
    /\ scDetect = FALSE
    /\ scStrategies = 0
    /\ manualWaits = 0
    /\ scTrace = <<>>
    /\ loginResult = "none"
    /\ loginError = "none"
    /\ credOps = 0
    /\ credSubmits = 0
    /\ credInSend = 0
    /\ saveCount = 0
    /\ saveInSend = 0
    /\ verified = 0
    /\ solverCalls = 0
    /\ navCount = 0
    /\ attempt = 0
    /\ btn = "NA"
    /\ sent = "NA"
    /\ typed = FALSE
    /\ triggers = 0
    /\ challenge = "none"
    /\ steps = <<>>
    /\ file = AbsentFile
    /\ saves = <<>>
    /\ loaded = "none"
    /\ setCalled = FALSE
    /\ applied = {}
    /\ sentCheck = "NA"
    /\ loginAlert = "NA"
    /\ loginSteps = <<>>
    /\ flows = NoFlows
    /\ strategy = NoStrategy
    /\ dispatch = NoDispatch
    /\ compose = <<>>
    /\ cookieDir = <<>>
    /\ pauses = NoPauses

(***************************************************************************)
(* Run Orchestrator: processAll (basic, enhanced, facebook) and the        *)
(* Actor.main callback (apify).                                            *)
(***************************************************************************)

\* Where the flow goes once the page is set up.
AfterSetup == CASE variant \in {"basic", "enhanced"} -> "login_load"
                [] variant = "apify"                 -> "session_goto"
                [] OTHER                             -> "loop"

\* Input validation and puppeteer.launch.  The apify variant rejects an empty
\* profile list before it launches; the credentials are taken as set.
processAll_launch ==
    /\ pc = "start"
    /\ IF variant = "apify" /\ Len(profiles) = 0
       THEN /\ pc' = "thrown"
            /\ ret' = [kind |-> "error", results |-> <<>>]
            /\ UNCHANGED <<browser, flows>>
       ELSE /\ pc' = "setup"
            /\ browser' = "open"
            /\ UNCHANGED ret
            /\ flows' = Wrote(flows, "log", StartLog(variant))
    /\ UNCHANGED <<i, closeCount, fatal, results, sink>>
    /\ UNCHANGED <<cfgVars, solveVars, loginVars, sendVars, page>>
    /\ UNCHANGED cookieVars
    /\ UNCHANGED <<sentCheck, loginAlert, loginSteps, strategy,
                   composeVars, unitVars>>

\* browser.newPage(), page.setUserAgent() and the header setup.  In the apify
\* variant they are inside the try whose finally closes the browser; in the
\* other variants they precede the try, so an exception leaves the function
\* directly.
processAll_newPage ==
    /\ pc = "setup"
    /\ \E ok \in BOOLEAN :
         IF ok
         THEN /\ pc' = AfterSetup
              /\ UNCHANGED <<fatal, ret>>
         ELSE IF variant = "apify"
              THEN /\ pc' = "finally"
                   /\ fatal' = TRUE
                   /\ UNCHANGED ret
              ELSE /\ pc' = "thrown"
                   /\ ret' = [kind |-> "error", results |-> <<>>]
                   /\ UNCHANGED fatal
    /\ UNCHANGED <<i, browser, closeCount, results, sink>>
    /\ UNCHANGED <<cfgVars, solveVars, loginVars, sendVars, page>>
    /\ UNCHANGED cookieVars
    /\ UNCHANGED <<noteVars, strategy, composeVars, unitVars>>

\* console.log('Login result:', loginResult), then the profile loop.
processAll_loginResult ==
    /\ pc = "login_ret"
    /\ pc' = "loop"
    /\ UNCHANGED <<i, browser, closeCount, fatal, results, sink, ret>>
    /\ UNCHANGED <<cfgVars, solveVars, loginVars, sendVars, page>>
    /\ UNCHANGED cookieVars
    /\ flows' = Wrote(flows, "log", {"login_result"})
    /\ UNCHANGED <<sentCheck, loginAlert, loginSteps, strategy,
                   composeVars, unitVars>>

\* The loop head: the next profile, or the end of the loop.
processAll_nextProfile ==
    /\ pc = "loop"
    /\ IF i < Len(profiles)
       THEN /\ i' = i + 1
            /\ pc' = IF variant \in {"facebook", "apify"} /\ i = 0
                     THEN "send_start"
                     ELSE "pause"
            /\ res' = NoResult
            /\ attempt' = 0
            /\ btn' = IF variant = "apify" THEN "No" ELSE "NA"
            /\ sent' = IF variant = "apify" THEN "No" ELSE "NA"
            /\ typed' = FALSE
            /\ triggers' = 0
            /\ challenge' = "none"
            /\ steps' = <<>>
            /\ sentCheck' = "NA"
            /\ dispatch' = NoDispatch
            /\ compose' = <<>>
       ELSE /\ pc' = IF variant = "apify" THEN "summary" ELSE "finally"
            /\ UNCHANGED <<i, res, attempt, btn, sent, typed, triggers, challenge,
                           steps, sentCheck, composeVars>>
    /\ UNCHANGED <<browser, closeCount, fatal, results, sink, ret, navCount>>
    /\ UNCHANGED <<cfgVars, solveVars, loginVars, page>>
    /\ UNCHANGED cookieVars
    /\ UNCHANGED <<loginAlert, loginSteps, flows, strategy,
                   unitVars>>

\* The pause before a delivery: before every profile in basic and enhanced,
\* only between profiles (i > 0 in the source's 0-based index) elsewhere.
processAll_pause ==
    /\ pc = "pause"
    /\ pc' = "send_start"
    /\ UNCHANGED <<i, browser, closeCount, fatal, results, sink, ret>>
    /\ UNCHANGED <<cfgVars, solveVars, loginVars, sendVars, page>>
    /\ UNCHANGED cookieVars
    /\ UNCHANGED <<noteVars, strategy, composeVars, unitVars>>

\* The record the per-profile catch block builds: no durationMs.
FailRecord == [profileId |-> profiles[i], success |-> FALSE,
               durationMs |-> FALSE, error |-> "sink",
               btn |-> IF variant = "apify" THEN "No" ELSE "NA",
               sent |-> IF variant = "apify" THEN "No" ELSE "NA"]

\* What one call of sendMessageToProfile left behind is gone once its result
\* is in results.
SendLocalsDropped ==
    /\ res' = NoResult
    /\ attempt' = 0
    /\ btn' = "NA"
    /\ sent' = "NA"
    /\ typed' = FALSE
    /\ triggers' = 0
    /\ challenge' = "none"
    /\ steps' = <<>>
    /\ sentCheck' = "NA"
    /\ dispatch' = NoDispatch
    /\ compose' = <<>>
    /\ UNCHANGED navCount

\* Fault seeded into processAll_logResult: the write is started but not
\* awaited and the push is left to its completion, so the loop moves on to
\* the next profile with the result not yet in results.
processAll_logResult_unawaited ==
    /\ pc = "record"
    /\ sink' = Append(sink, res)
    /\ pc' = "loop"
    /\ SendLocalsDropped
    /\ UNCHANGED <<i, browser, closeCount, fatal, results, ret>>
    /\ UNCHANGED <<cfgVars, solveVars, loginVars, page>>
    /\ UNCHANGED cookieVars
    /\ UNCHANGED <<loginAlert, loginSteps, flows, strategy,
                   unitVars>>

\* logResult(result) / dataset.pushData(result), then results.push(result).
\* A failed write throws into the per-profile catch block.
processAll_logResult ==
    /\ pc = "record"
    /\ \E ok \in BOOLEAN :
         IF ok
         THEN /\ sink' = Append(sink, res)
              /\ results' = Append(results, res)
              /\ flows' = Recorded(flows, ResultSources(res))
              /\ pc' = "loop"
              /\ SendLocalsDropped
         ELSE /\ pc' = "record_fail"
              /\ UNCHANGED <<sink, results, sendVars, sentCheck, flows,
                           composeVars>>
    /\ UNCHANGED <<i, browser, closeCount, fatal, ret>>
    /\ UNCHANGED <<cfgVars, solveVars, loginVars, page>>
    /\ UNCHANGED cookieVars
    /\ UNCHANGED <<loginAlert, loginSteps, strategy, unitVars>>

\* Fault seeded into processAll_logFail: the catch block logs the failure
\* record but does not push it.
processAll_logFail_unpushed ==
    /\ pc = "record_fail"
    /\ \E ok \in BOOLEAN :
         IF ok
         THEN /\ sink' = Append(sink, FailRecord)
              /\ pc' = "loop"
              /\ UNCHANGED fatal
         ELSE /\ pc' = "finally"
              /\ fatal' = TRUE
              /\ UNCHANGED sink
    /\ SendLocalsDropped
    /\ UNCHANGED <<i, browser, closeCount, results, ret>>
    /\ UNCHANGED <<cfgVars, solveVars, loginVars, page>>
    /\ UNCHANGED cookieVars
    /\ UNCHANGED <<loginAlert, loginSteps, flows, strategy,
                   unitVars>>

\* The per-profile catch block: logResult(fail), results.push(fail).  A write
\* that fails again leaves the loop through the outer catch.
processAll_logFail ==
    /\ pc = "record_fail"
    /\ \E ok \in BOOLEAN :
         IF ok
         THEN /\ sink' = Append(sink, FailRecord)
              /\ results' = Append(results, FailRecord)
              /\ flows' = Recorded(flows, ResultSources(FailRecord))
              /\ pc' = "loop"
              /\ UNCHANGED fatal
         ELSE /\ pc' = "finally"
              /\ fatal' = TRUE
              /\ UNCHANGED <<sink, results, flows>>
    /\ SendLocalsDropped
    /\ UNCHANGED <<i, browser, closeCount, ret>>
    /\ UNCHANGED <<cfgVars, solveVars, loginVars, page>>
    /\ UNCHANGED cookieVars
    /\ UNCHANGED <<loginAlert, loginSteps, strategy, unitVars>>

\* apify: the SUMMARY record written to the key-value store after the loop.
processAll_summary ==
    /\ pc = "summary"
    /\ \E ok \in BOOLEAN : fatal' = ~ok
    /\ pc' = "finally"
    /\ UNCHANGED <<i, browser, closeCount, results, sink, ret>>
    /\ UNCHANGED <<cfgVars, solveVars, loginVars, sendVars, page>>
    /\ UNCHANGED cookieVars
    /\ UNCHANGED <<noteVars, strategy, composeVars, unitVars>>

\* The outer catch rethrows; finally closes the browser; `return results`
\* is reached only when nothing was thrown.  The Actor.main callback returns
\* no value.
processAll_finally ==
    /\ pc = "finally"
    /\ browser' = "closed"
    /\ closeCount' = closeCount + 1
    /\ IF fatal
       THEN /\ pc' = "thrown"
            /\ ret' = [kind |-> "error", results |-> <<>>]
       ELSE /\ pc' = "returned"
            /\ ret' = IF variant = "apify"
                      THEN [kind |-> "void", results |-> <<>>]
                      ELSE [kind |-> "results", results |-> results]
    /\ UNCHANGED <<i, fatal, results, sink>>
    /\ UNCHANGED <<cfgVars, solveVars, loginVars, sendVars, page>>
    /\ UNCHANGED cookieVars
    /\ UNCHANGED <<noteVars, strategy, composeVars, unitVars>>

\* The resolver's outcome and bookkeeping are locals of one call: they are
\* gone once the caller has read the outcome.
SolverLocalsDropped ==
    /\ solved' = "none"
    /\ scDetect' = FALSE
    /\ scStrategies' = 0
    /\ manualWaits' = 0
    /\ scTrace' = <<>>
    /\ page' = CleanPage
    /\ UNCHANGED <<solverCaller, solverCalls>>

(***************************************************************************)
(* The page changes on its own between two reads: a human solves the       *)
(* challenge in the open window, a challenge appears or expires.  It is    *)
(* enabled where the next step of the flow reads the challenge markers.    *)
(***************************************************************************)
PageReadPcs == {"login_detect", "fb_detect", "send_detect", "sc_entry",
                "sc_manual", "hook_entry"}

PageChange ==
    /\ pc \in PageReadPcs
    /\ page' \in PagesOf(variant) \ {page}
    /\ UNCHANGED <<cfgVars, runVars, solveVars, loginVars, sendVars>>
    /\ UNCHANGED cookieVars
    /\ UNCHANGED <<noteVars, strategy, composeVars, unitVars>>

(***************************************************************************)
(* Login Controller of the basic and enhanced variants: loginIfNeeded.     *)
(* An exception leaves processAll through its outer catch and finally.     *)
(***************************************************************************)

\* loadCookies(page, email): true iff a stored set exists and page.setCookie
\* accepted it.  The call is outside any try of loginIfNeeded: a record that
\* cannot be read makes loginIfNeeded throw.
loginIfNeeded_loadCookies ==
    /\ pc = "login_load"
    /\ \E setOk \in BOOLEAN :
         LET loadedNow == loadCookies(variant, StoreFile(store), setOk).result
         IN  IF loadedNow = "threw"
             THEN /\ loginResult' = "failed"
                  /\ loginError' = "load_cookies"
                  /\ fatal' = TRUE
                  /\ pc' = "finally"
             ELSE /\ pc' = IF loadedNow = "true" THEN "login_reuse"
                                                ELSE "login_goto"
                  /\ UNCHANGED <<loginResult, loginError, fatal>>
    /\ UNCHANGED <<i, browser, closeCount, results, sink, ret>>
    /\ UNCHANGED <<loginCaller, credOps, credSubmits, credInSend, saveCount,
                   saveInSend, verified, store>>
    /\ UNCHANGED <<cfgVars, solveVars, sendVars, page>>
    /\ UNCHANGED cookieVars
    /\ loginSteps' = Append(loginSteps, "load_cookies")
    /\ UNCHANGED <<sentCheck, loginAlert, flows, strategy,
                   composeVars, unitVars>>

\* Fault seeded into loginIfNeeded_reuse: the email field is filled before the
\* logged-in indicator is looked for.
loginIfNeeded_reuse_retyped ==
    /\ pc = "login_reuse"
    /\ credOps' = credOps + 1
    /\ \E navOk \in BOOLEAN, indicator \in BOOLEAN :
         IF ~navOk
         THEN /\ loginResult' = "failed"
              /\ loginError' = "navigation"
              /\ fatal' = TRUE
              /\ pc' = "finally"
         ELSE /\ UNCHANGED fatal
              /\ IF indicator
                 THEN /\ loginResult' = "reused"
                      /\ UNCHANGED loginError
                      /\ pc' = "login_ret"
                 ELSE /\ pc' = "login_goto"
                      /\ UNCHANGED <<loginResult, loginError>>
    /\ UNCHANGED <<i, browser, closeCount, results, sink, ret>>
    /\ UNCHANGED <<loginCaller, credSubmits, credInSend, saveCount,
                   saveInSend, verified, store>>
    /\ UNCHANGED <<cfgVars, solveVars, sendVars, page>>
    /\ UNCHANGED cookieVars
    /\ UNCHANGED <<noteVars, strategy, composeVars, unitVars>>

\* if (loaded): goto(loginUrl), then the logged-in indicator.  Present: return
\* { loggedIn: true, reusedCookies: true }.  Absent: fall through to the
\* credential login.
loginIfNeeded_reuse ==
    /\ pc = "login_reuse"
    /\ \E navOk \in BOOLEAN, indicator \in BOOLEAN :
         IF ~navOk
         THEN /\ loginResult' = "failed"
              /\ loginError' = "navigation"
              /\ fatal' = TRUE
              /\ pc' = "finally"
         ELSE /\ UNCHANGED fatal
              /\ IF indicator
                 THEN /\ loginResult' = "reused"
                      /\ UNCHANGED loginError
                      /\ pc' = "login_ret"
                 ELSE /\ pc' = "login_goto"
                      /\ UNCHANGED <<loginResult, loginError>>
    /\ UNCHANGED <<i, browser, closeCount, results, sink, ret>>
    /\ UNCHANGED <<loginCaller, credOps, credSubmits, credInSend, saveCount,
                   saveInSend, verified, store>>
    /\ UNCHANGED <<cfgVars, solveVars, sendVars, page>>
    /\ UNCHANGED cookieVars
    /\ loginSteps' = Append(loginSteps, "reuse_goto")
    /\ UNCHANGED <<sentCheck, loginAlert, flows, strategy,
                   composeVars, unitVars>>

\* goto(loginUrl) and waitForSelector(emailSelector).
loginIfNeeded_goto ==
    /\ pc = "login_goto"
    /\ \E navOk \in BOOLEAN, emailField \in BOOLEAN :
         IF navOk /\ emailField
         THEN /\ pc' = "login_email"
              /\ UNCHANGED <<fatal, loginResult, loginError>>
         ELSE /\ loginResult' = "failed"
              /\ loginError' = "field"
              /\ fatal' = TRUE
              /\ pc' = "finally"
    /\ UNCHANGED <<i, browser, closeCount, results, sink, ret>>
    /\ UNCHANGED <<loginCaller, credOps, credSubmits, credInSend, saveCount,
                   saveInSend, verified, store>>
    /\ UNCHANGED <<cfgVars, solveVars, sendVars, page>>
    /\ UNCHANGED cookieVars
    /\ loginSteps' = Append(loginSteps, "goto_login")
    /\ UNCHANGED <<sentCheck, loginAlert, flows, strategy,
                   composeVars, unitVars>>

\* humanType(emailEl, email).
loginIfNeeded_email ==
    /\ pc = "login_email"
    /\ credOps' = credOps + 1
    /\ pc' = "login_pass"
    /\ UNCHANGED <<i, browser, closeCount, fatal, results, sink, ret>>
    /\ UNCHANGED <<loginCaller, loginResult, loginError, credSubmits, credInSend, saveCount,
                   saveInSend, verified, store>>
    /\ UNCHANGED <<cfgVars, solveVars, sendVars, page>>
    /\ UNCHANGED cookieVars
    /\ loginSteps' = Append(loginSteps, "type_email")
    /\ flows' = Wrote(flows, "field", {"email"})
    /\ UNCHANGED <<sentCheck, loginAlert, strategy, composeVars, unitVars>>

\* Fault seeded into loginIfNeeded_password: the typed secret is printed.
loginIfNeeded_password_logged ==
    /\ pc = "login_pass"
    /\ \E passEl \in BOOLEAN :
         IF passEl
         THEN /\ credOps' = credOps + 1
              /\ pc' = "login_submit"
              /\ UNCHANGED <<fatal, loginResult, loginError>>
         ELSE /\ loginResult' = "failed"
              /\ loginError' = "field"
              /\ fatal' = TRUE
              /\ pc' = "finally"
              /\ UNCHANGED credOps
    /\ UNCHANGED <<i, browser, closeCount, results, sink, ret>>
    /\ UNCHANGED <<loginCaller, credSubmits, credInSend, saveCount,
                   saveInSend, verified, store>>
    /\ UNCHANGED <<cfgVars, solveVars, sendVars, page>>
    /\ UNCHANGED cookieVars
    /\ loginSteps' = IF pc' = "login_submit" THEN Append(loginSteps, "type_password")
                                          ELSE loginSteps
    /\ flows' = IF pc' = "login_submit" THEN Wrote(Wrote(flows, "field", {"password"}),
                                                "log", {"password"})
                                     ELSE flows
    /\ UNCHANGED <<sentCheck, loginAlert, strategy, composeVars, unitVars>>

\* The password field: missing throws, else humanType(passEl, password).
loginIfNeeded_password ==
    /\ pc = "login_pass"
    /\ \E passEl \in BOOLEAN :
         IF passEl
         THEN /\ credOps' = credOps + 1
              /\ pc' = "login_submit"
              /\ UNCHANGED <<fatal, loginResult, loginError>>
         ELSE /\ loginResult' = "failed"
              /\ loginError' = "field"
              /\ fatal' = TRUE
              /\ pc' = "finally"
              /\ UNCHANGED credOps
    /\ UNCHANGED <<i, browser, closeCount, results, sink, ret>>
    /\ UNCHANGED <<loginCaller, credSubmits, credInSend, saveCount,
                   saveInSend, verified, store>>
    /\ UNCHANGED <<cfgVars, solveVars, sendVars, page>>
    /\ UNCHANGED cookieVars
    /\ loginSteps' = IF pc' = "login_submit" THEN Append(loginSteps, "type_password")
                                          ELSE loginSteps
    /\ flows' = IF pc' = "login_submit" THEN Wrote(flows, "field", {"password"})
                                     ELSE flows
    /\ UNCHANGED <<sentCheck, loginAlert, strategy, composeVars, unitVars>>

\* Click on the submit control or Enter, then waitForNavigation (its timeout
\* is swallowed): the page after submission is whatever the site shows.
loginIfNeeded_submit ==
    /\ pc = "login_submit"
    /\ credOps' = credOps + 1
    /\ credSubmits' = credSubmits + 1
    /\ page' \in PagesOf(variant)
    /\ pc' = "login_detect"
    /\ UNCHANGED <<i, browser, closeCount, fatal, results, sink, ret>>
    /\ UNCHANGED <<loginCaller, loginResult, loginError, credInSend, saveCount,
                   saveInSend, verified, store>>
    /\ UNCHANGED <<cfgVars, solveVars, sendVars>>
    /\ UNCHANGED cookieVars
    /\ loginSteps' = Append(loginSteps, "submit")
    /\ UNCHANGED <<sentCheck, loginAlert, flows, strategy,
                   composeVars, unitVars>>

\* The captcha check after submission: the enhanced variant calls
\* solveCaptcha, the basic one the solver hook processAll always supplies.
loginIfNeeded_detect ==
    /\ pc = "login_detect"
    /\ IF captchaPresent(page)
       THEN /\ pc' = IF variant = "enhanced" THEN "sc_entry" ELSE "hook_entry"
            /\ solverCaller' = "loginIfNeeded"
       ELSE /\ pc' = "login_verify"
            /\ UNCHANGED solverCaller
    /\ UNCHANGED <<i, browser, closeCount, fatal, results, sink, ret>>
    /\ UNCHANGED <<solved, scDetect, scStrategies, manualWaits, scTrace,
                   solverCalls>>
    /\ UNCHANGED <<cfgVars, loginVars, sendVars, page>>
    /\ UNCHANGED cookieVars
    /\ loginSteps' = Append(loginSteps, "captcha_check")
    /\ UNCHANGED <<sentCheck, loginAlert, flows, strategy,
                   composeVars, unitVars>>

\* Fault seeded into loginIfNeeded_solved: the resolver's answer is awaited
\* but not read (as in the basic variant's delivery).
loginIfNeeded_solved_unread ==
    /\ pc = "login_solved"
    /\ pc' = "login_verify"
    /\ UNCHANGED <<i, browser, closeCount, fatal, results, sink, ret>>
    /\ UNCHANGED <<cfgVars, loginVars, sendVars>>
    /\ SolverLocalsDropped
    /\ UNCHANGED cookieVars
    /\ UNCHANGED <<noteVars, strategy, composeVars, unitVars>>

\* if (!solved) throw / if (!ok) throw; an exception of the resolver or the
\* hook is not caught here either.
loginIfNeeded_solved ==
    /\ pc = "login_solved"
    /\ IF solved = "true"
       THEN /\ pc' = "login_verify"
            /\ UNCHANGED <<fatal, loginResult, loginError>>
       ELSE /\ loginResult' = "failed"
            /\ loginError' = CASE solved = "false"      -> "captcha"
                                [] hookKind = "custom"  -> "hook_error"
                                [] OTHER                -> "captcha_timeout"
            /\ fatal' = TRUE
            /\ pc' = "finally"
    /\ UNCHANGED <<i, browser, closeCount, results, sink, ret>>
    /\ UNCHANGED <<loginCaller, credOps, credSubmits, credInSend, saveCount,
                   saveInSend, verified, store>>
    /\ UNCHANGED <<cfgVars, sendVars>>
    /\ SolverLocalsDropped
    /\ UNCHANGED cookieVars
    /\ UNCHANGED <<noteVars, strategy, composeVars, unitVars>>

\* Fault seeded into loginIfNeeded_verify: the indicator is not looked for
\* and the cookies are saved whatever the page shows.
loginIfNeeded_verify_unchecked ==
    /\ pc = "login_verify"
    /\ pc' = "login_save"
    /\ UNCHANGED <<i, browser, closeCount, fatal, results, sink, ret>>
    /\ UNCHANGED <<cfgVars, solveVars, loginVars, sendVars, page>>
    /\ UNCHANGED cookieVars
    /\ UNCHANGED <<noteVars, strategy, composeVars, unitVars>>

\* Verify login success: the logged-in indicator must be present.
loginIfNeeded_verify ==
    /\ pc = "login_verify"
    /\ \E indicator \in BOOLEAN, errorElement \in BOOLEAN :
         IF indicator
         THEN /\ verified' = verified + 1
              /\ pc' = "login_save"
              /\ loginAlert' = "NA"
              /\ UNCHANGED <<fatal, loginResult, loginError>>
         ELSE /\ loginResult' = "failed"
              /\ loginError' = "credentials"
              /\ loginAlert' = IF errorElement THEN "text" ELSE "none"
              /\ fatal' = TRUE
              /\ pc' = "finally"
              /\ UNCHANGED verified
    /\ UNCHANGED <<i, browser, closeCount, results, sink, ret>>
    /\ UNCHANGED <<loginCaller, credOps, credSubmits, credInSend, saveCount,
                   saveInSend, store>>
    /\ UNCHANGED <<cfgVars, solveVars, sendVars, page>>
    /\ UNCHANGED cookieVars
    /\ loginSteps' = Append(loginSteps, "verify")
    /\ UNCHANGED <<sentCheck, flows, strategy, composeVars, unitVars>>

\* loginIfNeeded without its await saveCookies(page): the login is reported
\* but no cookie reaches the store.
loginIfNeeded_save_unwritten ==
    /\ pc = "login_save"
    /\ loginResult' = "fresh"
    /\ pc' = "login_ret"
    /\ UNCHANGED <<saveCount, store, loginError, fatal>>
    /\ UNCHANGED <<i, browser, closeCount, results, sink, ret>>
    /\ UNCHANGED <<loginCaller, credOps, credSubmits, credInSend, saveInSend,
                   verified>>
    /\ UNCHANGED <<cfgVars, solveVars, sendVars, page>>
    /\ UNCHANGED cookieVars
    /\ loginSteps' = Append(loginSteps, "save_cookies")
    /\ UNCHANGED <<sentCheck, loginAlert, flows, strategy,
                   composeVars, unitVars>>

\* saveCookies(page, email); return { loggedIn: true, reusedCookies: false }.
\* A write that fails throws out of loginIfNeeded.
loginIfNeeded_save ==
    /\ pc = "login_save"
    /\ saveCount' = saveCount + 1
    /\ \E written \in BOOLEAN :
         IF written
         THEN /\ store' = "fresh"
              /\ loginResult' = "fresh"
              /\ UNCHANGED loginError
              /\ pc' = "login_ret"
              /\ UNCHANGED fatal
         ELSE /\ loginResult' = "failed"
              /\ loginError' = "save"
              /\ fatal' = TRUE
              /\ pc' = "finally"
              /\ UNCHANGED store
    /\ UNCHANGED <<i, browser, closeCount, results, sink, ret>>
    /\ UNCHANGED <<loginCaller, credOps, credSubmits, credInSend, saveInSend,
                   verified>>
    /\ UNCHANGED <<cfgVars, solveVars, sendVars, page>>
    /\ UNCHANGED cookieVars
    /\ loginSteps' = Append(loginSteps, "save_cookies")
    /\ flows' = IF store' = "fresh" /\ pc' = "login_ret"
              THEN Wrote(flows, "store", {"email", "cookies"})
              ELSE flows
    /\ UNCHANGED <<sentCheck, loginAlert, strategy, composeVars, unitVars>>

(***************************************************************************)
(* Verification Challenge Resolver.                                        *)
(***************************************************************************)

\* Where the flow continues when the resolver (or the hook) hands back.
SolverRet == CASE solverCaller = "loginIfNeeded"         -> "login_solved"
               [] solverCaller = "performFacebookLogin"  -> "fb_solved"
               [] OTHER                                   -> "send_solved"

\* enhanced solveCaptcha, first step: page.$('iframe[src*="recaptcha"]').
\* With a recaptcha frame the audio strategy is next; without one the code
\* goes straight to waitForManualCaptchaSolve.
solveCaptcha_enhanced ==
    /\ pc = "sc_entry"
    /\ variant = "enhanced"
    /\ solverCalls' = solverCalls + 1
    /\ scDetect' = captchaPresent(page)
    /\ scStrategies' = 0
    /\ manualWaits' = 0
    /\ scTrace' = <<>>
    /\ solved' = "none"
    /\ pc' = IF page.frame THEN "sc_audio" ELSE "sc_manual"
    /\ UNCHANGED <<i, browser, closeCount, fatal, results, sink, ret>>
    /\ UNCHANGED <<solverCaller>>
    /\ UNCHANGED <<cfgVars, loginVars, sendVars, page>>
    /\ UNCHANGED cookieVars
    /\ UNCHANGED <<noteVars, strategy, composeVars, unitVars>>

\* facebook and apify solveCaptcha, first step: the detection predicate;
\* if (!captchaPresent) return true.
solveCaptcha_detect ==
    /\ pc = "sc_entry"
    /\ variant \in {"facebook", "apify"}
    /\ solverCalls' = solverCalls + 1
    /\ scDetect' = captchaPresent(page)
    /\ scStrategies' = 0
    /\ manualWaits' = 0
    /\ scTrace' = <<>>
    /\ IF captchaPresent(page)
       THEN /\ solved' = "none"
            /\ pc' = "sc_audio"
       ELSE /\ solved' = "true"
            /\ pc' = SolverRet
    /\ UNCHANGED <<i, browser, closeCount, fatal, results, sink, ret>>
    /\ UNCHANGED <<solverCaller>>
    /\ UNCHANGED <<cfgVars, loginVars, sendVars, page>>
    /\ UNCHANGED cookieVars
    /\ UNCHANGED <<noteVars, strategy, composeVars, unitVars>>

\* solveRecaptchaAudio(page): true or false, never an exception.  On false
\* the enhanced variant looks for a sitekey, the facebook variant considers
\* the manual wait, the apify variant sleeps 30 s.
solveRecaptchaAudio ==
    /\ pc = "sc_audio"
    /\ scStrategies' = scStrategies + 1
    /\ scTrace' = Append(scTrace, "audio")
    /\ \E audioSolved \in BOOLEAN :
         IF audioSolved
         THEN /\ solved' = "true"
              /\ pc' = SolverRet
         ELSE /\ UNCHANGED solved
              /\ pc' = CASE variant = "enhanced" -> "sc_service"
                         [] variant = "facebook" -> "sc_manual"
                         [] OTHER                -> "sc_delay"
    /\ UNCHANGED <<i, browser, closeCount, fatal, results, sink, ret>>
    /\ UNCHANGED <<solverCaller, scDetect, manualWaits, solverCalls>>
    /\ UNCHANGED <<cfgVars, loginVars, sendVars, page>>
    /\ UNCHANGED cookieVars
    /\ UNCHANGED <<noteVars, strategy, composeVars, unitVars>>

\* Fault seeded into solve2Captcha: the API key is not looked at and the
\* request goes out whenever a sitekey is found.
solve2Captcha_keyless ==
    /\ pc = "sc_service"
    /\ \E sitekey \in BOOLEAN, serviceSolved \in BOOLEAN :
         IF sitekey
         THEN /\ scStrategies' = scStrategies + 1
              /\ scTrace' = Append(scTrace, "service")
              /\ IF serviceSolved
                 THEN /\ solved' = "true"
                      /\ pc' = SolverRet
                 ELSE /\ UNCHANGED solved
                      /\ pc' = "sc_manual"
         ELSE /\ UNCHANGED <<solved, scStrategies, scTrace>>
              /\ pc' = "sc_manual"
    /\ UNCHANGED <<i, browser, closeCount, fatal, results, sink, ret>>
    /\ UNCHANGED <<solverCaller, scDetect, manualWaits, solverCalls>>
    /\ UNCHANGED <<cfgVars, loginVars, sendVars, page>>
    /\ UNCHANGED cookieVars
    /\ UNCHANGED <<noteVars, strategy, composeVars, unitVars>>

\* enhanced: the [data-sitekey] lookup and solve2Captcha(page, sitekey).
\* Without an API key solve2Captcha returns false before any request.
solve2Captcha ==
    /\ pc = "sc_service"
    /\ \E sitekey \in BOOLEAN, serviceSolved \in BOOLEAN :
         IF sitekey /\ apiKey
         THEN /\ scStrategies' = scStrategies + 1
              /\ scTrace' = Append(scTrace, "service")
              /\ IF serviceSolved
                 THEN /\ solved' = "true"
                      /\ pc' = SolverRet
                 ELSE /\ UNCHANGED solved
                      /\ pc' = "sc_manual"
         ELSE /\ UNCHANGED <<solved, scStrategies, scTrace>>
              /\ pc' = "sc_manual"
    /\ UNCHANGED <<i, browser, closeCount, fatal, results, sink, ret>>
    /\ UNCHANGED <<solverCaller, scDetect, manualWaits, solverCalls>>
    /\ UNCHANGED <<cfgVars, loginVars, sendVars, page>>
    /\ UNCHANGED cookieVars
    /\ UNCHANGED <<noteVars, strategy, composeVars, unitVars>>

\* enhanced waitForManualCaptchaSolve, the whole call.  Headless returns false
\* at once.  Otherwise the loop polls the detection predicate every
\* 3 s: it returns true at the first poll that finds no challenge (the page
\* as it is now, or as it has become while the loop slept), and throws when
\* 5 minutes have passed.  The throw leaves solveCaptcha's try block
\* for its catch block, which calls waitForManualCaptchaSolve again; thrown
\* from the catch block it reaches the caller.
waitForManualCaptchaSolve ==
    /\ pc = "sc_manual"
    /\ variant = "enhanced"
    /\ IF headless
       THEN /\ solved' = "false"
            /\ pc' = SolverRet
            /\ UNCHANGED <<scStrategies, manualWaits, scTrace, page>>
       ELSE /\ scStrategies' = scStrategies + 1
            /\ scTrace' = Append(scTrace, "manual")
            /\ manualWaits' = manualWaits + 1
            /\ IF ~captchaPresent(page)
               THEN /\ solved' = "true"
                    /\ pc' = SolverRet
                    /\ UNCHANGED page
               ELSE \E cleared \in BOOLEAN :
                      IF cleared
                      THEN /\ page' \in {p \in PagesOf(variant) : ~captchaPresent(p)}
                           /\ solved' = "true"
                           /\ pc' = SolverRet
                      ELSE /\ page' \in {p \in PagesOf(variant) : captchaPresent(p)}
                           /\ IF manualWaits = 0
                              THEN /\ pc' = "sc_manual"
                                   /\ UNCHANGED solved
                              ELSE /\ solved' = "threw"
                                   /\ pc' = SolverRet
    /\ UNCHANGED <<i, browser, closeCount, fatal, results, sink, ret>>
    /\ UNCHANGED <<solverCaller, scDetect, solverCalls>>
    /\ UNCHANGED <<cfgVars, loginVars, sendVars>>
    /\ UNCHANGED cookieVars
    /\ UNCHANGED <<noteVars, strategy, composeVars, unitVars>>

\* facebook solveCaptcha after the audio strategy failed.  HEADLESS 'true':
\* return false.  Otherwise the manual wait: every 2 s it looks for a
\* recaptcha frame only, returns true at the first poll that finds none, and
\* falls out of the loop to `return false` after 3 minutes.
solveCaptcha_manual ==
    /\ pc = "sc_manual"
    /\ variant = "facebook"
    /\ IF headless
       THEN /\ solved' = "false"
            /\ pc' = SolverRet
            /\ UNCHANGED <<scStrategies, manualWaits, scTrace, page>>
       ELSE /\ scStrategies' = scStrategies + 1
            /\ scTrace' = Append(scTrace, "manual")
            /\ manualWaits' = manualWaits + 1
            /\ pc' = SolverRet
            /\ IF ~page.frame
               THEN /\ solved' = "true"
                    /\ UNCHANGED page
               ELSE \E cleared \in BOOLEAN :
                      IF cleared
                      THEN /\ page' \in {p \in PagesOf(variant) : ~p.frame}
                           /\ solved' = "true"
                      ELSE /\ page' \in {p \in PagesOf(variant) : p.frame}
                           /\ solved' = "false"
    /\ UNCHANGED <<i, browser, closeCount, fatal, results, sink, ret>>
    /\ UNCHANGED <<solverCaller, scDetect, solverCalls>>
    /\ UNCHANGED <<cfgVars, loginVars, sendVars>>
    /\ UNCHANGED cookieVars
    /\ UNCHANGED <<noteVars, strategy, composeVars, unitVars>>

\* apify solveCaptcha after the audio strategy failed: delay(30000), then
\* return false.
solveCaptcha_delay ==
    /\ pc = "sc_delay"
    /\ scStrategies' = scStrategies + 1
    /\ scTrace' = Append(scTrace, "manual")
    /\ manualWaits' = manualWaits + 1
    /\ solved' = "false"
    /\ pc' = SolverRet
    /\ UNCHANGED <<i, browser, closeCount, fatal, results, sink, ret>>
    /\ UNCHANGED <<solverCaller, scDetect, solverCalls>>
    /\ UNCHANGED <<cfgVars, loginVars, sendVars, page>>
    /\ UNCHANGED cookieVars
    /\ UNCHANGED <<noteVars, strategy, composeVars, unitVars>>

\* basic: the captcha solver hook.  processAll passes options.captchaSolverHook
\* or defaultCaptchaSolverHook.  A custom hook may return true, return false
\* or throw.  defaultCaptchaSolverHook polls the detection predicate every
\* 3 s whatever HEADLESS is: true at the first poll that finds no challenge,
\* an exception when 5 minutes have passed.
captchaSolverHook ==
    /\ pc = "hook_entry"
    /\ solverCalls' = solverCalls + 1
    /\ scDetect' = captchaPresent(page)
    /\ pc' = SolverRet
    /\ IF hookKind = "custom"
       THEN /\ \E r \in {"true", "false", "threw"} : solved' = r
            /\ scStrategies' = 0
            /\ manualWaits' = 0
            /\ scTrace' = <<>>
            /\ UNCHANGED page
       ELSE /\ scStrategies' = 1
            /\ manualWaits' = 1
            /\ scTrace' = <<"manual">>
            /\ IF ~captchaPresent(page)
               THEN /\ solved' = "true"
                    /\ UNCHANGED page
               ELSE \E cleared \in BOOLEAN :
                      IF cleared
                      THEN /\ page' \in {p \in PagesOf(variant) : ~captchaPresent(p)}
                           /\ solved' = "true"
                      ELSE /\ page' \in {p \in PagesOf(variant) : captchaPresent(p)}
                           /\ solved' = "threw"
    /\ UNCHANGED <<i, browser, closeCount, fatal, results, sink, ret>>
    /\ UNCHANGED <<solverCaller>>
    /\ UNCHANGED <<cfgVars, loginVars, sendVars>>
    /\ UNCHANGED cookieVars
    /\ UNCHANGED <<noteVars, strategy, composeVars, unitVars>>

(***************************************************************************)
(* Target Delivery Controller: sendMessageToProfile.  Its try/catch turns  *)
(* every exception into a failure result with durationMs.                  *)
(***************************************************************************)

\* humanClick(page, element): what one call dispatches for an element whose
\* boundingBox() is or is not resolvable.  With a box every variant moves the
\* pointer along a path and clicks; without one the CLI variants call
\* element.click(), the apify variant has no else branch.  The basic variant
\* has the same two branches written inline at its send button.
humanClick(v, box) ==
    [path   |-> box,
     clicks |-> IF box THEN 1 ELSE IF v = "apify" THEN 0 ELSE 1]

\* Content a compose surface may hold before the delivery touches it.
PriorContents == {<<>>, <<"draft">>}

\* The compose step.  enhanced sets value and textContent to '' and types;
\* apify selects all (Control+a) and types over the selection, its input
\* selector admitting contenteditable="true" elements only; basic and
\* facebook click the surface and type at the caret.
typeMessage(v, prior) ==
    IF v \in {"enhanced", "apify"} THEN <<"message">>
                                   ELSE prior \o <<"message">>

\* The result of the catch block: { success: false, profileId, url, error,
\* durationMs } and, in the apify variant, the two diagnostic flags.
SendFail(cause) == [profileId |-> profiles[i], success |-> FALSE,
                    durationMs |-> TRUE, error |-> cause,
                    btn |-> btn, sent |-> sent]

\* The result of the last statement of the try block.
SendOk == [profileId |-> profiles[i], success |-> TRUE,
           durationMs |-> TRUE, error |-> "none",
           btn |-> btn, sent |-> sent]

\* apify: const maxAttempts = 3.
maxAttempts == 3

(***************************************************************************)
(* Login of the facebook and apify variants: performFacebookLogin, called  *)
(* from Actor.main (apify) or from sendMessageToProfile (facebook).  It    *)
(* rethrows; Actor.main swallows the exception, sendMessageToProfile       *)
(* turns it into a failure result.                                         *)
(***************************************************************************)
FbThrow(cause) ==
    /\ loginError' = cause
    /\ IF loginCaller = "main"
       THEN /\ loginResult' = "failed"
            /\ pc' = "loop"
            /\ UNCHANGED res
       ELSE /\ res' = SendFail(cause)
            /\ pc' = "record"
            /\ UNCHANGED loginResult

\* Credential interactions made on behalf of sendMessageToProfile.
InSend(k) == IF loginCaller = "sendMessageToProfile" THEN k ELSE 0

\* waitForSelector(email field), humanClick and humanType(emailField, email).
performFacebookLogin_email ==
    /\ pc = "fb_email"
    /\ \E emailField \in BOOLEAN :
         IF emailField
         THEN /\ credOps' = credOps + 1
              /\ credInSend' = credInSend + InSend(1)
              /\ pc' = "fb_pass"
              /\ UNCHANGED <<res, loginResult, loginError>>
         ELSE /\ FbThrow("login_failed")
              /\ UNCHANGED <<credOps, credInSend>>
    /\ UNCHANGED <<i, browser, closeCount, fatal, results, sink, ret>>
    /\ UNCHANGED <<loginCaller, credSubmits, saveCount, saveInSend, verified, store>>
    /\ UNCHANGED <<navCount, attempt, btn, sent, typed, triggers>>
    /\ UNCHANGED <<cfgVars, solveVars, page>>
    /\ UNCHANGED <<challenge, steps>>
    /\ UNCHANGED cookieVars
    /\ flows' = IF credOps' # credOps THEN Wrote(flows, "field", {"email"})
                                   ELSE flows
    /\ UNCHANGED <<sentCheck, loginAlert, loginSteps, strategy,
                   composeVars, unitVars>>

\* The password field: missing throws, else humanType(passwordField, password).
performFacebookLogin_password ==
    /\ pc = "fb_pass"
    /\ \E passwordField \in BOOLEAN :
         IF passwordField
         THEN /\ credOps' = credOps + 1
              /\ credInSend' = credInSend + InSend(1)
              /\ pc' = "fb_submit"
              /\ UNCHANGED <<res, loginResult, loginError>>
         ELSE /\ FbThrow("login_failed")
              /\ UNCHANGED <<credOps, credInSend>>
    /\ UNCHANGED <<i, browser, closeCount, fatal, results, sink, ret>>
    /\ UNCHANGED <<loginCaller, credSubmits, saveCount, saveInSend, verified, store>>
    /\ UNCHANGED <<navCount, attempt, btn, sent, typed, triggers>>
    /\ UNCHANGED <<cfgVars, solveVars, page>>
    /\ UNCHANGED <<challenge, steps>>
    /\ UNCHANGED cookieVars
    /\ flows' = IF credOps' # credOps THEN Wrote(flows, "field", {"password"})
                                   ELSE flows
    /\ UNCHANGED <<sentCheck, loginAlert, loginSteps, strategy,
                   composeVars, unitVars>>

\* Click on the login button or Enter, then the race of waitForNavigation
\* and delay(5000).
performFacebookLogin_submit ==
    /\ pc = "fb_submit"
    /\ credOps' = credOps + 1
    /\ credInSend' = credInSend + InSend(1)
    /\ credSubmits' = credSubmits + 1
    /\ page' \in PagesOf(variant)
    /\ pc' = "fb_detect"
    /\ UNCHANGED <<i, browser, closeCount, fatal, results, sink, ret>>
    /\ UNCHANGED <<loginCaller, loginResult, loginError, saveCount, saveInSend, verified, store>>
    /\ UNCHANGED <<cfgVars, solveVars, sendVars>>
    /\ UNCHANGED cookieVars
    /\ UNCHANGED <<noteVars, strategy, composeVars, unitVars>>

\* Check for CAPTCHA: recaptcha frame, captcha element or the body text.
performFacebookLogin_detect ==
    /\ pc = "fb_detect"
    /\ IF loginCaptchaPresent(page)
       THEN /\ pc' = "sc_entry"
            /\ solverCaller' = "performFacebookLogin"
       ELSE /\ pc' = "fb_verify"
            /\ UNCHANGED solverCaller
    /\ UNCHANGED <<i, browser, closeCount, fatal, results, sink, ret>>
    /\ UNCHANGED <<solved, scDetect, scStrategies, manualWaits, scTrace,
                   solverCalls>>
    /\ UNCHANGED <<cfgVars, loginVars, sendVars, page>>
    /\ UNCHANGED cookieVars
    /\ UNCHANGED <<noteVars, strategy, composeVars, unitVars>>

\* if (!solved) throw new Error('CAPTCHA could not be solved during login').
performFacebookLogin_solved ==
    /\ pc = "fb_solved"
    /\ IF solved = "true"
       THEN /\ pc' = "fb_verify"
            /\ UNCHANGED <<res, loginResult, loginError>>
       ELSE FbThrow("login_captcha")
    /\ UNCHANGED <<i, browser, closeCount, fatal, results, sink, ret>>
    /\ UNCHANGED <<loginCaller, credOps, credSubmits, credInSend, saveCount,
                   saveInSend, verified, store>>
    /\ UNCHANGED <<navCount, attempt, btn, sent, typed, triggers>>
    /\ UNCHANGED <<cfgVars>>
    /\ SolverLocalsDropped
    /\ UNCHANGED <<challenge, steps>>
    /\ UNCHANGED cookieVars
    /\ UNCHANGED <<noteVars, strategy, composeVars, unitVars>>

\* isLoginRequired(page) after the submission: still on the login page throws,
\* else return true.
performFacebookLogin_verify ==
    /\ pc = "fb_verify"
    /\ \E stillOnLoginPage \in BOOLEAN, errorMessage \in BOOLEAN :
         IF stillOnLoginPage
         THEN /\ FbThrow(IF errorMessage THEN "login_error_text"
                                          ELSE "still_on_login_page")
              /\ loginAlert' = IF errorMessage THEN "text" ELSE "none"
              /\ UNCHANGED verified
         ELSE /\ verified' = verified + 1
              /\ loginAlert' = "NA"
              /\ pc' = IF loginCaller = "main" THEN "session_save" ELSE "send_save"
              /\ UNCHANGED <<res, loginResult, loginError>>
    /\ UNCHANGED <<i, browser, closeCount, fatal, results, sink, ret>>
    /\ UNCHANGED <<loginCaller, credOps, credSubmits, credInSend, saveCount,
                   saveInSend, store>>
    /\ UNCHANGED <<navCount, attempt, btn, sent, typed, triggers>>
    /\ UNCHANGED <<cfgVars, solveVars, page>>
    /\ UNCHANGED <<challenge, steps>>
    /\ UNCHANGED cookieVars
    /\ UNCHANGED <<sentCheck, loginSteps, flows, strategy,
                   composeVars, unitVars>>

(***************************************************************************)
(* apify: session establishment in Actor.main.  Its try/catch swallows     *)
(* every exception ("continuing anyway").                                  *)
(***************************************************************************)

\* page.goto("https://www.facebook.com").
Actor_session_goto ==
    /\ pc = "session_goto"
    /\ \E navOk \in BOOLEAN :
         IF navOk
         THEN /\ pc' = "session_cookies"
              /\ UNCHANGED <<loginResult, loginError>>
         ELSE /\ loginResult' = "failed"
              /\ loginError' = "navigation"
              /\ pc' = "loop"
    /\ UNCHANGED <<i, browser, closeCount, fatal, results, sink, ret>>
    /\ UNCHANGED <<loginCaller, credOps, credSubmits, credInSend, saveCount,
                   saveInSend, verified, store>>
    /\ UNCHANGED <<cfgVars, solveVars, sendVars, page>>
    /\ UNCHANGED cookieVars
    /\ UNCHANGED <<noteVars, strategy, composeVars, unitVars>>

\* loadCookies(page, loginEmail) and, if it loaded, page.reload.
Actor_session_cookies ==
    /\ pc = "session_cookies"
    /\ \E setOk \in BOOLEAN, reloadOk \in BOOLEAN :
         IF loadCookies(variant, StoreFile(store), setOk).result = "true"
         THEN IF reloadOk
              THEN /\ pc' = "session_check"
                   /\ UNCHANGED <<loginResult, loginError>>
              ELSE /\ loginResult' = "failed"
                   /\ loginError' = "navigation"
                   /\ pc' = "loop"
         ELSE /\ pc' = "session_check"
              /\ UNCHANGED <<loginResult, loginError>>
    /\ UNCHANGED <<i, browser, closeCount, fatal, results, sink, ret>>
    /\ UNCHANGED <<loginCaller, credOps, credSubmits, credInSend, saveCount,
                   saveInSend, verified, store>>
    /\ UNCHANGED <<cfgVars, solveVars, sendVars, page>>
    /\ UNCHANGED cookieVars
    /\ UNCHANGED <<noteVars, strategy, composeVars, unitVars>>

\* isLoginRequired(page): required calls performFacebookLogin.
Actor_session_check ==
    /\ pc = "session_check"
    /\ \E needsLogin \in BOOLEAN :
         IF needsLogin
         THEN /\ loginCaller' = "main"
              /\ pc' = "fb_email"
              /\ UNCHANGED loginResult
         ELSE /\ loginResult' = "reused"
              /\ pc' = "loop"
              /\ UNCHANGED loginCaller
    /\ UNCHANGED <<i, browser, closeCount, fatal, results, sink, ret>>
    /\ UNCHANGED <<loginError, credOps, credSubmits, credInSend, saveCount,
                   saveInSend, verified, store>>
    /\ UNCHANGED <<cfgVars, solveVars, sendVars, page>>
    /\ UNCHANGED cookieVars
    /\ UNCHANGED <<noteVars, strategy, composeVars, unitVars>>

\* saveCookies(page, loginEmail) after performFacebookLogin returned.  A
\* write that fails is swallowed with the rest of the block's exceptions.
Actor_session_save ==
    /\ pc = "session_save"
    /\ \E written \in BOOLEAN :
         /\ store' = IF written THEN "fresh" ELSE store
         /\ flows' = IF written
                     THEN Wrote(Wrote(flows, "store", {"email", "cookies"}),
                                "log", {"email"})
                     ELSE flows
    /\ saveCount' = saveCount + 1
    /\ loginResult' = "fresh"
    /\ pc' = "loop"
    /\ UNCHANGED <<i, browser, closeCount, fatal, results, sink, ret>>
    /\ UNCHANGED <<loginCaller, loginError, credOps, credSubmits, credInSend, saveInSend,
                   verified>>
    /\ UNCHANGED <<cfgVars, solveVars, sendVars, page>>
    /\ UNCHANGED cookieVars
    /\ UNCHANGED <<sentCheck, loginAlert, loginSteps, strategy,
                   composeVars, unitVars>>

(***************************************************************************)
(* sendMessageToProfile, step by step.                                     *)
(***************************************************************************)

\* basic, enhanced: page.goto(profile.url).
\* facebook: loadCookies, then page.goto(profile.url).
sendMessageToProfile_goto ==
    /\ pc = "send_start"
    /\ variant # "apify"
    /\ \E setOk \in BOOLEAN, navOk \in BOOLEAN, p \in PagesOf(variant) :
         IF /\ variant = "facebook"
            /\ loadCookies(variant, StoreFile(store), setOk).result = "threw"
         THEN /\ res' = SendFail("load_cookies")
              /\ pc' = "record"
              /\ UNCHANGED <<page, navCount, steps>>
         ELSE /\ navCount' = navCount + 1
              /\ steps' = Append(steps, "goto")
              /\ IF navOk
                 THEN /\ IF variant = "facebook"
                         THEN /\ pc' = "send_login"
                              /\ UNCHANGED page
                         ELSE /\ pc' = "send_detect"
                              /\ page' = p
                      /\ UNCHANGED res
                 ELSE /\ res' = SendFail("navigation")
                      /\ pc' = "record"
                      /\ UNCHANGED page
    /\ UNCHANGED <<i, browser, closeCount, fatal, results, sink, ret>>
    /\ UNCHANGED <<attempt, btn, sent, typed, triggers>>
    /\ UNCHANGED <<cfgVars, solveVars, loginVars>>
    /\ UNCHANGED challenge
    /\ UNCHANGED cookieVars
    /\ UNCHANGED <<noteVars, strategy, composeVars, unitVars>>

\* The retry loop with its bound off by one: a fourth load after three failed.
sendMessageToProfile_navigate_unbounded ==
    /\ pc = "send_start"
    /\ variant = "apify"
    /\ attempt < maxAttempts + 1
    /\ attempt' = attempt + 1
    /\ navCount' = navCount + 1
    /\ \E navOk \in BOOLEAN :
         IF navOk
         THEN /\ pc' = "send_login"
              /\ steps' = Append(steps, "goto")
              /\ UNCHANGED res
         ELSE IF attempt' = maxAttempts + 1
              THEN /\ res' = SendFail("navigation_exhausted")
                   /\ pc' = "record"
                   /\ steps' = Append(steps, "goto")
              ELSE /\ steps' = steps \o <<"goto", "retry_pause">>
                   /\ UNCHANGED <<res, pc>>
    /\ UNCHANGED <<i, browser, closeCount, fatal, results, sink, ret>>
    /\ UNCHANGED <<btn, sent, typed, triggers>>
    /\ UNCHANGED <<cfgVars, solveVars, loginVars, page>>
    /\ UNCHANGED challenge
    /\ UNCHANGED cookieVars
    /\ UNCHANGED <<noteVars, strategy, composeVars, unitVars>>

\* apify: one turn of the navigation retry loop (loadCookies precedes the
\* first turn).  A failed turn pauses and retries, except the last, which
\* throws "Failed to load profile after 3 attempts".
sendMessageToProfile_navigate ==
    /\ pc = "send_start"
    /\ variant = "apify"
    /\ attempt < maxAttempts
    /\ attempt' = attempt + 1
    /\ navCount' = navCount + 1
    /\ \E navOk \in BOOLEAN :
         IF navOk
         THEN /\ pc' = "send_login"
              /\ steps' = Append(steps, "goto")
              /\ UNCHANGED res
         ELSE IF attempt' = maxAttempts
              THEN /\ res' = SendFail("navigation_exhausted")
                   /\ pc' = "record"
                   /\ steps' = Append(steps, "goto")
              ELSE /\ steps' = steps \o <<"goto", "retry_pause">>
                   /\ UNCHANGED <<res, pc>>
    /\ UNCHANGED <<i, browser, closeCount, fatal, results, sink, ret>>
    /\ UNCHANGED <<btn, sent, typed, triggers>>
    /\ UNCHANGED <<cfgVars, solveVars, loginVars, page>>
    /\ UNCHANGED challenge
    /\ UNCHANGED cookieVars
    /\ UNCHANGED <<noteVars, strategy, composeVars, unitVars>>

\* facebook, apify: isLoginRequired(page) at the destination.  The facebook
\* variant logs in on the spot; the apify variant throws "Login required".
sendMessageToProfile_isLoginRequired ==
    /\ pc = "send_login"
    /\ \E needsLogin \in BOOLEAN :
         IF ~needsLogin
         THEN /\ pc' = "send_button"
              /\ UNCHANGED <<res, loginCaller>>
         ELSE IF variant = "facebook"
              THEN /\ loginCaller' = "sendMessageToProfile"
                   /\ pc' = "fb_email"
                   /\ UNCHANGED res
              ELSE /\ res' = SendFail("login_required")
                   /\ pc' = "record"
                   /\ UNCHANGED loginCaller
    /\ UNCHANGED <<i, browser, closeCount, fatal, results, sink, ret>>
    /\ UNCHANGED <<loginResult, loginError, credOps, credSubmits, credInSend, saveCount,
                   saveInSend, verified, store>>
    /\ UNCHANGED <<navCount, attempt, btn, sent, typed, triggers>>
    /\ UNCHANGED <<cfgVars, solveVars, page>>
    /\ steps' = Append(steps, "login_check")
    /\ UNCHANGED challenge
    /\ UNCHANGED cookieVars
    /\ UNCHANGED <<noteVars, strategy, composeVars, unitVars>>

\* facebook: saveCookies after the login inside the delivery, then
\* page.goto(profile.url) again.
sendMessageToProfile_saveCookies ==
    /\ pc = "send_save"
    /\ saveCount' = saveCount + 1
    /\ saveInSend' = saveInSend + 1
    /\ \E written \in BOOLEAN, navOk \in BOOLEAN :
         IF ~written
         THEN /\ res' = SendFail("save_cookies")
              /\ pc' = "record"
              /\ steps' = Append(steps, "save")
              /\ UNCHANGED <<store, navCount, flows>>
         ELSE /\ store' = "fresh"
              /\ flows' = Wrote(flows, "store", {"email", "cookies"})
              /\ navCount' = navCount + 1
              /\ steps' = steps \o <<"save", "goto">>
              /\ IF navOk
                 THEN /\ pc' = "send_button"
                      /\ UNCHANGED res
                 ELSE /\ res' = SendFail("navigation")
                      /\ pc' = "record"
    /\ UNCHANGED <<i, browser, closeCount, fatal, results, sink, ret>>
    /\ UNCHANGED <<loginCaller, loginResult, loginError, credOps, credSubmits, credInSend,
                   verified>>
    /\ UNCHANGED <<attempt, btn, sent, typed, triggers>>
    /\ UNCHANGED <<cfgVars, solveVars, page>>
    /\ UNCHANGED challenge
    /\ UNCHANGED cookieVars
    /\ UNCHANGED <<sentCheck, loginAlert, loginSteps, strategy,
                   composeVars, unitVars>>

\* basic, enhanced: humanScroll, then the captcha check on the profile page.
sendMessageToProfile_detect ==
    /\ pc = "send_detect"
    /\ IF captchaPresent(page)
       THEN /\ pc' = IF variant = "enhanced" THEN "sc_entry" ELSE "hook_entry"
            /\ solverCaller' = "sendMessageToProfile"
       ELSE /\ pc' = "send_box"
            /\ UNCHANGED solverCaller
    /\ UNCHANGED <<i, browser, closeCount, fatal, results, sink, ret>>
    /\ UNCHANGED <<solved, scDetect, scStrategies, manualWaits, scTrace,
                   solverCalls>>
    /\ steps' = steps \o <<"scroll", "captcha_check">>
    /\ UNCHANGED <<res, navCount, attempt, btn, sent, typed, triggers, challenge>>
    /\ UNCHANGED <<cfgVars, loginVars, page>>
    /\ UNCHANGED cookieVars
    /\ UNCHANGED <<noteVars, strategy, composeVars, unitVars>>

\* enhanced: if (!solved) throw.  basic: `await captchaSolverHook(page)`,
\* whose return value is not read; only an exception fails the delivery.
sendMessageToProfile_solved ==
    /\ pc = "send_solved"
    /\ IF solved = "true" \/ (variant = "basic" /\ solved = "false")
       THEN /\ pc' = "send_box"
            /\ UNCHANGED res
       ELSE /\ res' = SendFail("captcha")
            /\ pc' = "record"
    /\ UNCHANGED <<i, browser, closeCount, fatal, results, sink, ret>>
    /\ UNCHANGED <<navCount, attempt, btn, sent, typed, triggers>>
    /\ UNCHANGED <<cfgVars, loginVars>>
    /\ SolverLocalsDropped
    /\ challenge' = IF solved = "true" THEN "cleared" ELSE "unresolved"
    /\ UNCHANGED steps
    /\ UNCHANGED cookieVars
    /\ UNCHANGED <<noteVars, strategy, composeVars, unitVars>>

\* basic, enhanced: waitForSelector(messageBoxSelector), click, (enhanced:
\* clear), humanType(messageBox, message).
sendMessageToProfile_type ==
    /\ pc = "send_box"
    /\ \E messageBox \in BOOLEAN, prior \in PriorContents :
         IF messageBox
         THEN /\ typed' = TRUE
              /\ compose' = typeMessage(variant, prior)
              /\ steps' = steps \o <<"box_lookup", "type">>
              /\ pc' = "send_send"
              /\ UNCHANGED res
         ELSE /\ res' = SendFail("message_box_not_found")
              /\ pc' = "record"
              /\ steps' = Append(steps, "box_lookup")
              /\ UNCHANGED <<typed, compose>>
    /\ UNCHANGED <<i, browser, closeCount, fatal, results, sink, ret>>
    /\ UNCHANGED <<navCount, attempt, btn, sent, triggers>>
    /\ UNCHANGED <<cfgVars, solveVars, loginVars, page>>
    /\ UNCHANGED challenge
    /\ UNCHANGED cookieVars
    /\ UNCHANGED <<noteVars, strategy, dispatch, unitVars>>

\* facebook, apify: the message button.
\* apify: found -> humanClick, messageButtonPresent = "Yes"; not found ->
\*   the inner throw, rewritten by the inner catch.
\* facebook: found -> click and waitForSelector(compose surface); not found ->
\*   the direct compose area, typed into at once, or "No messaging interface".
sendMessageToProfile_button ==
    /\ pc = "send_button"
    /\ \E messageButton \in BOOLEAN, surface \in BOOLEAN :
         IF variant = "apify"
         THEN IF messageButton
              THEN /\ btn' = "Yes"
                   /\ pc' = "send_input"
                   /\ UNCHANGED <<res, typed>>
              ELSE /\ res' = SendFail("profile_unavailable")
                   /\ pc' = "record"
                   /\ UNCHANGED <<btn, typed>>
         ELSE IF messageButton
              THEN IF surface
                   THEN /\ pc' = "send_input"
                        /\ UNCHANGED <<res, btn, typed>>
                   ELSE /\ res' = SendFail("timeout")
                        /\ pc' = "record"
                        /\ UNCHANGED <<btn, typed>>
              ELSE IF surface
                   THEN /\ typed' = TRUE
                        /\ pc' = "send_send"
                        /\ UNCHANGED <<res, btn>>
                   ELSE /\ res' = SendFail("no_messaging_interface")
                        /\ pc' = "record"
                        /\ UNCHANGED <<btn, typed>>
    /\ UNCHANGED <<i, browser, closeCount, fatal, results, sink, ret>>
    /\ steps' = steps \o (IF variant = "apify"
                            THEN <<"scroll", "button_lookup">>
                            ELSE IF pc' = "send_input" \/ res'.error = "timeout"
                                 THEN <<"scroll", "button_lookup", "surface_wait">>
                                 ELSE <<"scroll", "button_lookup", "area_lookup">>)
                       \o (IF typed' /\ ~typed THEN <<"type">> ELSE <<>>)
    /\ \E prior \in PriorContents :
         compose' = IF typed' /\ ~typed THEN typeMessage(variant, prior)
                                       ELSE compose
    /\ UNCHANGED <<navCount, attempt, sent, triggers, challenge>>
    /\ UNCHANGED <<cfgVars, solveVars, loginVars, page>>
    /\ UNCHANGED cookieVars
    /\ UNCHANGED <<noteVars, strategy, dispatch, unitVars>>

\* facebook, apify: the message input; found -> click, select, type.
\* apify rewrites "Message input field not found" in its inner catch.
sendMessageToProfile_input ==
    /\ pc = "send_input"
    /\ \E messageInput \in BOOLEAN, prior \in PriorContents :
         IF messageInput
         THEN /\ typed' = TRUE
              /\ compose' = typeMessage(variant, prior)
              /\ pc' = "send_send"
              /\ UNCHANGED res
         ELSE /\ res' = SendFail(IF variant = "apify"
                                 THEN "profile_unavailable"
                                 ELSE "message_input_not_found")
              /\ pc' = "record"
              /\ UNCHANGED <<typed, compose>>
    /\ UNCHANGED <<i, browser, closeCount, fatal, results, sink, ret>>
    /\ steps' = steps \o <<"input_lookup">>
                       \o (IF typed' THEN <<"type">> ELSE <<>>)
    /\ UNCHANGED <<navCount, attempt, btn, sent, triggers, challenge>>
    /\ UNCHANGED <<cfgVars, solveVars, loginVars, page>>
    /\ UNCHANGED cookieVars
    /\ UNCHANGED <<noteVars, strategy, dispatch, unitVars>>

\* The send trigger: humanClick on the send control, else Enter.  The apify
\* humanClick clicks only when the element has a bounding box; messageSent
\* becomes "Yes" on both branches.
sendMessageToProfile_send ==
    /\ pc = "send_send"
    /\ \E sendButton \in BOOLEAN, box \in BOOLEAN :
         /\ dispatch' = IF sendButton
                        THEN [control |-> TRUE,
                              path    |-> humanClick(variant, box).path,
                              clicks  |-> humanClick(variant, box).clicks,
                              enters  |-> 0]
                        ELSE [control |-> FALSE, path |-> FALSE,
                              clicks  |-> 0, enters |-> 1]
         /\ triggers' = triggers + dispatch'.clicks + dispatch'.enters
    /\ sent' = IF variant = "apify" THEN "Yes" ELSE sent
    /\ pc' = IF variant \in {"basic", "enhanced"} THEN "send_confirm" ELSE "send_done"
    /\ UNCHANGED <<i, browser, closeCount, fatal, results, sink, ret>>
    /\ UNCHANGED <<res, navCount, attempt, btn, typed>>
    /\ UNCHANGED <<cfgVars, solveVars, loginVars, page>>
    /\ steps' = Append(steps, "send")
    /\ UNCHANGED challenge
    /\ UNCHANGED cookieVars
    /\ UNCHANGED <<noteVars, strategy, compose, unitVars>>


\* Fault seeded into sendMessageToProfile_confirm: the indicator is looked up
\* and its absence is not acted on.
sendMessageToProfile_confirm_unchecked ==
    /\ pc = "send_confirm"
    /\ \E confirmation \in BOOLEAN :
         /\ res' = SendOk
         /\ sentCheck' = IF ~confirmSel THEN "NA"
                          ELSE IF confirmation THEN "present" ELSE "absent"
    /\ pc' = "record"
    /\ UNCHANGED <<i, browser, closeCount, fatal, results, sink, ret>>
    /\ UNCHANGED <<navCount, attempt, btn, sent, typed, triggers>>
    /\ UNCHANGED <<cfgVars, solveVars, loginVars, page>>
    /\ UNCHANGED <<challenge, steps>>
    /\ UNCHANGED cookieVars
    /\ UNCHANGED <<loginAlert, loginSteps, flows, strategy,
                   composeVars, unitVars>>

\* basic, enhanced: the settle delay and the optional confirmation check.
sendMessageToProfile_confirm ==
    /\ pc = "send_confirm"
    /\ \E confirmation \in BOOLEAN :
         /\ res' = IF confirmSel /\ ~confirmation
                   THEN SendFail("no_confirmation")
                   ELSE SendOk
         /\ sentCheck' = IF ~confirmSel THEN "NA"
                          ELSE IF confirmation THEN "present" ELSE "absent"
    /\ pc' = "record"
    /\ UNCHANGED <<i, browser, closeCount, fatal, results, sink, ret>>
    /\ UNCHANGED <<navCount, attempt, btn, sent, typed, triggers>>
    /\ UNCHANGED <<cfgVars, solveVars, loginVars, page>>
    /\ UNCHANGED <<challenge, steps>>
    /\ UNCHANGED cookieVars
    /\ UNCHANGED <<loginAlert, loginSteps, flows, strategy,
                   composeVars, unitVars>>

\* facebook, apify: the settle delay and the success result.
sendMessageToProfile_done ==
    /\ pc = "send_done"
    /\ res' = SendOk
    /\ pc' = "record"
    /\ UNCHANGED <<i, browser, closeCount, fatal, results, sink, ret>>
    /\ UNCHANGED <<navCount, attempt, btn, sent, typed, triggers>>
    /\ UNCHANGED <<cfgVars, solveVars, loginVars, page>>
    /\ UNCHANGED <<challenge, steps>>
    /\ UNCHANGED cookieVars
    /\ UNCHANGED <<noteVars, strategy, composeVars, unitVars>>

(***************************************************************************)
(* The specification.                                                      *)
(***************************************************************************)
Next ==
    \/ processAll_launch
    \/ processAll_newPage
    \/ processAll_loginResult
    \/ processAll_nextProfile
    \/ processAll_pause
    \/ processAll_logResult
    \/ processAll_logFail
    \/ processAll_summary
    \/ processAll_finally
    \/ PageChange
    \/ loginIfNeeded_loadCookies
    \/ loginIfNeeded_reuse
    \/ loginIfNeeded_goto
    \/ loginIfNeeded_email
    \/ loginIfNeeded_password
    \/ loginIfNeeded_submit
    \/ loginIfNeeded_detect
    \/ loginIfNeeded_solved
    \/ loginIfNeeded_verify
    \/ loginIfNeeded_save
    \/ solveCaptcha_enhanced
    \/ solveCaptcha_detect
    \/ solveRecaptchaAudio
    \/ solve2Captcha
    \/ waitForManualCaptchaSolve
    \/ solveCaptcha_manual
    \/ solveCaptcha_delay
    \/ captchaSolverHook
    \/ performFacebookLogin_email
    \/ performFacebookLogin_password
    \/ performFacebookLogin_submit
    \/ performFacebookLogin_detect
    \/ performFacebookLogin_solved
    \/ performFacebookLogin_verify
    \/ Actor_session_goto
    \/ Actor_session_cookies
    \/ Actor_session_check
    \/ Actor_session_save
    \/ sendMessageToProfile_goto
    \/ sendMessageToProfile_navigate
    \/ sendMessageToProfile_isLoginRequired
    \/ sendMessageToProfile_saveCookies
    \/ sendMessageToProfile_detect
    \/ sendMessageToProfile_solved
    \/ sendMessageToProfile_type
    \/ sendMessageToProfile_button
    \/ sendMessageToProfile_input
    \/ sendMessageToProfile_send
    \/ sendMessageToProfile_confirm
    \/ sendMessageToProfile_done

Spec == Init /\ [][Next]_vars

(***************************************************************************)
(* The Session Store on its own: saveCookies and loadCookies applied to    *)
(* the record of one identity, with the cookies kept as sets.              *)
(***************************************************************************)
InitStore ==
    /\ variant \in Variants
    /\ file \in Files
    /\ saves = <<>>
    /\ loaded = "none"
    /\ setCalled = FALSE
    /\ applied = {}
    /\ headless = FALSE
    /\ optHeadless = FALSE
    /\ apiKey = FALSE
    /\ confirmSel = FALSE
    /\ hookKind = "none"
    /\ profiles = <<>>
    /\ store = "absent"
    /\ pc = "store"
    /\ i = 0
    /\ browser = "none"
    /\ closeCount = 0
    /\ fatal = FALSE
    /\ results = <<>>
    /\ sink = <<>>
    /\ ret = [kind |-> "pending", results |-> <<>>]
    /\ page = CleanPage
    /\ res = NoResult
    /\ solverCaller = "none"
    /\ loginCaller = "none"
    /\ solved = "none"
    /\ scDetect = FALSE
    /\ scStrategies = 0
    /\ manualWaits = 0
    /\ scTrace = <<>>
    /\ loginResult = "none"
    /\ loginError = "none"
    /\ credOps = 0
    /\ credSubmits = 0
    /\ credInSend = 0
    /\ saveCount = 0
    /\ saveInSend = 0
    /\ verified = 0
    /\ solverCalls = 0
    /\ navCount = 0
    /\ attempt = 0
    /\ btn = "NA"
    /\ sent = "NA"
    /\ typed = FALSE
    /\ triggers = 0
    /\ challenge = "none"
    /\ steps = <<>>
    /\ sentCheck = "NA"
    /\ loginAlert = "NA"
    /\ loginSteps = <<>>
    /\ flows = NoFlows
    /\ strategy = NoStrategy
    /\ dispatch = NoDispatch
    /\ compose = <<>>
    /\ cookieDir = <<>>
    /\ pauses = NoPauses

\* saveCookies(page, email): page.cookies() written over the record.
Store_saveCookies ==
    /\ pc = "store"
    /\ Len(saves) < MaxSaves
    /\ \E cookies \in SUBSET CookieNames :
         /\ file' = saveCookies(file, cookies)
         /\ saves' = Append(saves, cookies)
    /\ loaded' = "none"
    /\ setCalled' = FALSE
    /\ applied' = {}
    /\ UNCHANGED <<cfgVars, runVars, solveVars, loginVars, sendVars, page>>
    /\ UNCHANGED <<noteVars, strategy, composeVars, unitVars>>

\* loadCookies(page, email).
Store_loadCookies ==
    /\ pc = "store"
    /\ \E setOk \in BOOLEAN :
         LET out == loadCookies(variant, file, setOk)
         IN  /\ loaded' = out.result
             /\ setCalled' = out.setCookie
             /\ applied' = out.cookies
    /\ UNCHANGED <<file, saves>>
    /\ UNCHANGED <<cfgVars, runVars, solveVars, loginVars, sendVars, page>>
    /\ UNCHANGED <<noteVars, strategy, composeVars, unitVars>>

NextStore ==
    \/ Store_saveCookies
    \/ Store_loadCookies

SpecStore == InitStore /\ [][NextStore]_vars

(***************************************************************************)
(* The automated strategies of the enhanced resolver, statement by         *)
(* statement: one call of solve2Captcha or of solveRecaptchaAudio, with    *)
(* the locals of the call in the record `strategy`.                        *)
(*   at       : the statement the call is at                               *)
(*   result   : "none" until the call returns "true" or "false"            *)
(*   attempts, polls, submits, waitedMs, last : solve2Captcha's poll loop  *)
(*   textarea, grecaptcha, callback : what the page holds for the token    *)
(*   injected, called : what page.evaluate did with the token              *)
(*   answered, entered, verifyClicked, rechecked : the audio challenge     *)
(***************************************************************************)
solve2Captcha_maxAttempts == 30
solve2Captcha_delay_ms == 10000

TokenPages == [textarea : BOOLEAN, grecaptcha : BOOLEAN, callback : BOOLEAN]

NewCall(fn, tp) ==
    [fn |-> fn, at |-> "entry", result |-> "none",
     attempts |-> 0, polls |-> 0, submits |-> 0, waitedMs |-> 0, last |-> "none",
     textarea |-> tp.textarea, grecaptcha |-> tp.grecaptcha,
     callback |-> tp.callback, injected |-> FALSE, called |-> FALSE,
     answered |-> FALSE, entered |-> FALSE, verifyClicked |-> FALSE,
     rechecked |-> FALSE]

Returned(s, r) == [s EXCEPT !.at = "returned", !.result = r]

InitStrategy ==
    /\ strategy \in {NewCall("solve2Captcha", tp) : tp \in TokenPages}
                    \cup {NewCall("solveRecaptchaAudio",
                                  [textarea |-> FALSE, grecaptcha |-> FALSE,
                                   callback |-> FALSE])}
    /\ apiKey \in BOOLEAN
    /\ variant = "enhanced"
    /\ pc = "strategy"
    /\ headless = FALSE
    /\ optHeadless = FALSE
    /\ confirmSel = FALSE
    /\ hookKind = "none"
    /\ profiles = <<>>
    /\ store = "absent"
    /\ i = 0
    /\ browser = "none"
    /\ closeCount = 0
    /\ fatal = FALSE
    /\ results = <<>>
    /\ sink = <<>>
    /\ ret = [kind |-> "pending", results |-> <<>>]
    /\ page = CleanPage
    /\ res = NoResult
    /\ solverCaller = "none"
    /\ loginCaller = "none"
    /\ solved = "none"
    /\ scDetect = FALSE
    /\ scStrategies = 0
    /\ manualWaits = 0
    /\ scTrace = <<>>
    /\ loginResult = "none"
    /\ loginError = "none"
    /\ credOps = 0
    /\ credSubmits = 0
    /\ credInSend = 0
    /\ saveCount = 0
    /\ saveInSend = 0
    /\ verified = 0
    /\ solverCalls = 0
    /\ navCount = 0
    /\ attempt = 0
    /\ btn = "NA"
    /\ sent = "NA"
    /\ typed = FALSE
    /\ triggers = 0
    /\ challenge = "none"
    /\ steps = <<>>
    /\ file = AbsentFile
    /\ saves = <<>>
    /\ loaded = "none"
    /\ setCalled = FALSE
    /\ applied = {}
    /\ sentCheck = "NA"
    /\ loginAlert = "NA"
    /\ loginSteps = <<>>
    /\ flows = NoFlows
    /\ dispatch = NoDispatch
    /\ compose = <<>>
    /\ cookieDir = <<>>
    /\ pauses = NoPauses

StrategyFrame ==
    UNCHANGED <<cfgVars, runVars, solveVars, loginVars, sendVars, page,
                cookieVars, noteVars, composeVars, unitVars>>

\* if (!apiKey) return false, before the try and before any request.
solve2Captcha_entry ==
    /\ pc = "strategy"
    /\ strategy.fn = "solve2Captcha"
    /\ strategy.at = "entry"
    /\ strategy' = IF apiKey
                   THEN [strategy EXCEPT !.at = "submit"]
                   ELSE Returned(strategy, "false")
    /\ StrategyFrame

\* fetch(submitUrl): "OK|<id>", any other text (throw, caught), or a rejected
\* fetch (caught).
solve2Captcha_submit ==
    /\ pc = "strategy"
    /\ strategy.fn = "solve2Captcha"
    /\ strategy.at = "submit"
    /\ \E submitResult \in {"OK", "ERROR", "rejected"} :
         LET s == [strategy EXCEPT !.submits = @ + 1, !.last = submitResult]
         IN  strategy' = IF submitResult = "OK"
                         THEN [s EXCEPT !.at = "loop"]
                         ELSE Returned(s, "false")
    /\ StrategyFrame

\* Fault seeded into solve2Captcha_delay: the loop condition allows one more
\* turn.
solve2Captcha_delay_unbounded ==
    /\ pc = "strategy"
    /\ strategy.fn = "solve2Captcha"
    /\ strategy.at = "loop"
    /\ strategy' = IF strategy.attempts < solve2Captcha_maxAttempts + 1
                   THEN [strategy EXCEPT !.at = "poll",
                                         !.waitedMs = @ + solve2Captcha_delay_ms]
                   ELSE Returned(strategy, "false")
    /\ StrategyFrame

\* while (attempts < maxAttempts) { await delay(10000); ... }, and after the
\* loop throw new Error('2captcha solve timeout'), caught: return false.
solve2Captcha_delay ==
    /\ pc = "strategy"
    /\ strategy.fn = "solve2Captcha"
    /\ strategy.at = "loop"
    /\ strategy' = IF strategy.attempts < solve2Captcha_maxAttempts
                   THEN [strategy EXCEPT !.at = "poll",
                                         !.waitedMs = @ + solve2Captcha_delay_ms]
                   ELSE Returned(strategy, "false")
    /\ StrategyFrame

\* fetch(resultUrl): CAPCHA_NOT_READY counts an attempt and continues;
\* "OK|<token>" goes on to the injection; anything else throws, caught.
solve2Captcha_poll ==
    /\ pc = "strategy"
    /\ strategy.fn = "solve2Captcha"
    /\ strategy.at = "poll"
    /\ \E result \in {"CAPCHA_NOT_READY", "OK", "ERROR", "rejected"} :
         LET s == [strategy EXCEPT !.polls = @ + 1, !.last = result]
         IN  strategy' = CASE result = "CAPCHA_NOT_READY" ->
                                [s EXCEPT !.attempts = @ + 1, !.at = "loop"]
                           [] result = "OK" -> [s EXCEPT !.at = "inject"]
                           [] OTHER -> Returned(s, "false")
    /\ StrategyFrame

\* page.evaluate(token => ...): the token is written only if the element
\* #g-recaptcha-response exists, and the callback is called only inside that
\* branch and only if window.grecaptcha.getResponse exists; then return true.
\* A rejected evaluate is caught: return false.
solve2Captcha_inject ==
    /\ pc = "strategy"
    /\ strategy.fn = "solve2Captcha"
    /\ strategy.at = "inject"
    /\ \E evaluated \in BOOLEAN :
         strategy' = IF evaluated
                     THEN Returned([strategy EXCEPT
                                       !.injected = strategy.textarea,
                                       !.called = /\ strategy.textarea
                                                  /\ strategy.grecaptcha
                                                  /\ strategy.callback],
                                   "true")
                     ELSE Returned(strategy, "false")
    /\ StrategyFrame

\* solveRecaptchaAudio up to the challenge frame: waitForSelector(iframe),
\* the recaptcha frame, the checkbox click, the challenge frame.  No
\* challenge frame: return true.
solveRecaptchaAudio_frames ==
    /\ pc = "strategy"
    /\ strategy.fn = "solveRecaptchaAudio"
    /\ strategy.at = "entry"
    /\ \E iframe \in BOOLEAN, recaptchaFrame \in BOOLEAN,
          challengeFrame \in BOOLEAN :
         strategy' = IF ~iframe \/ ~recaptchaFrame
                     THEN Returned(strategy, "false")
                     ELSE IF ~challengeFrame
                          THEN Returned(strategy, "true")
                          ELSE [strategy EXCEPT !.at = "audio_button"]
    /\ StrategyFrame

\* The audio button, waitForSelector(download link), the link's href.
solveRecaptchaAudio_switch ==
    /\ pc = "strategy"
    /\ strategy.fn = "solveRecaptchaAudio"
    /\ strategy.at = "audio_button"
    /\ \E audioButton \in BOOLEAN, linkShown \in BOOLEAN, audioLink \in BOOLEAN :
         strategy' = IF audioButton /\ linkShown /\ audioLink
                     THEN [strategy EXCEPT !.at = "download"]
                     ELSE Returned(strategy, "false")
    /\ StrategyFrame

\* processAudioChallenge: downloadAudio is https.get with no timeout and no
\* 'error' listener on the request.  The response ends: mockSpeechToText
\* returns a text.  The response errors: reject, caught, null, "Could not
\* transcribe audio", caught: return false.  The request errors: an 'error'
\* event without a listener, which ends the process.  The server never
\* answers: the promise never settles.
solveRecaptchaAudio_download ==
    /\ pc = "strategy"
    /\ strategy.fn = "solveRecaptchaAudio"
    /\ strategy.at = "download"
    /\ \E outcome \in {"end", "response_error", "request_error", "pending"} :
         strategy' = CASE outcome = "end" ->
                                [strategy EXCEPT !.at = "answer", !.answered = TRUE]
                           [] outcome = "response_error" ->
                                Returned(strategy, "false")
                           [] outcome = "request_error" ->
                                [strategy EXCEPT !.at = "crashed"]
                           [] OTHER ->
                                [strategy EXCEPT !.at = "download_pending"]
    /\ StrategyFrame

\* The answer input (typed into if present), the verify button (clicked if
\* present), then isSuccess: no .rc-audiochallenge-error-message element.
solveRecaptchaAudio_answer ==
    /\ pc = "strategy"
    /\ strategy.fn = "solveRecaptchaAudio"
    /\ strategy.at = "answer"
    /\ \E audioInput \in BOOLEAN, verifyButton \in BOOLEAN,
          errorMessage \in BOOLEAN :
         strategy' = Returned([strategy EXCEPT !.entered = audioInput,
                                               !.verifyClicked = verifyButton,
                                               !.rechecked = TRUE],
                              IF errorMessage THEN "false" ELSE "true")
    /\ StrategyFrame

NextStrategy ==
    \/ solve2Captcha_entry
    \/ solve2Captcha_submit
    \/ solve2Captcha_delay
    \/ solve2Captcha_poll
    \/ solve2Captcha_inject
    \/ solveRecaptchaAudio_frames
    \/ solveRecaptchaAudio_switch
    \/ solveRecaptchaAudio_download
    \/ solveRecaptchaAudio_answer

SpecStrategy == InitStrategy /\ [][NextStrategy]_vars

\* Each statement of a call is executed once it is reached.
SpecStrategyLive == SpecStrategy /\ WF_vars(NextStrategy)

(***************************************************************************)
(* The orchestrator loop, one statement per step, with the pause each      *)
(* iteration computes.  Durations are milliseconds.                        *)
(***************************************************************************)

\* Everything a run holds besides its configuration, its position and the
\* two stores of unitVars, as it is before the run starts.
UnitRest ==
    /\ headless = FALSE
    /\ optHeadless = FALSE
    /\ apiKey = FALSE
    /\ confirmSel = FALSE
    /\ hookKind = "none"
    /\ store = "absent"
    /\ i = 0
    /\ browser = "none"
    /\ closeCount = 0
    /\ fatal = FALSE
    /\ results = <<>>
    /\ sink = <<>>
    /\ ret = [kind |-> "pending", results |-> <<>>]
    /\ page = CleanPage
    /\ res = NoResult
    /\ solverCaller = "none"
    /\ loginCaller = "none"
    /\ solved = "none"
    /\ scDetect = FALSE
    /\ scStrategies = 0
    /\ manualWaits = 0
    /\ scTrace = <<>>
    /\ loginResult = "none"
    /\ loginError = "none"
    /\ credOps = 0
    /\ credSubmits = 0
    /\ credInSend = 0
    /\ saveCount = 0
    /\ saveInSend = 0
    /\ verified = 0
    /\ solverCalls = 0
    /\ navCount = 0
    /\ attempt = 0
    /\ btn = "NA"
    /\ sent = "NA"
    /\ typed = FALSE
    /\ triggers = 0
    /\ challenge = "none"
    /\ steps = <<>>
    /\ file = AbsentFile
    /\ saves = <<>>
    /\ loaded = "none"
    /\ setCalled = FALSE
    /\ applied = {}
    /\ sentCheck = "NA"
    /\ loginAlert = "NA"
    /\ loginSteps = <<>>
    /\ flows = NoFlows
    /\ strategy = NoStrategy
    /\ dispatch = NoDispatch
    /\ compose = <<>>

\* rand(min, max): Math.floor(Math.random() * (max - min + 1)) + min.
rand(min, max) == min..max

\* Values of the actor input delayBetweenProfiles; 5000 is its default, the
\* input is not validated.
DelayInputs == {0, 500, 1000, 5000}

\* The argument the loop passes to delay() before a target.
pauseTimes(v, delayBetweenProfiles) ==
    CASE v = "apify"    -> {delayBetweenProfiles + r : r \in rand(-1000, 1000)}
      [] v = "facebook" -> rand(2000, 8000)
      [] OTHER          -> rand(2000, 5000)

\* The range the configuration names for that argument.
pauseBounds(v, delayBetweenProfiles) ==
    CASE v = "apify"    -> (delayBetweenProfiles - 1000)..(delayBetweenProfiles + 1000)
      [] v = "facebook" -> 2000..8000
      [] OTHER          -> 2000..5000

\* setTimeout(resolve, ms): a delay below 1 is set to 1.
delay(ms) == IF ms < 1 THEN 1 ELSE ms

InitPauses ==
    /\ variant \in Variants
    /\ profiles \in {[k \in 1..m |-> k] : m \in 0..MaxProfiles}
    /\ pc = "pauses"
    /\ cookieDir = <<>>
    /\ \E d \in DelayInputs :
         pauses = [at |-> "loop", i |-> 0, delayBetweenProfiles |-> d,
                   pauseTime |-> 0, waited |-> 0, since |-> 0, navs |-> 0]
    /\ (variant # "apify" => pauses.delayBetweenProfiles = 5000)
    /\ UnitRest

PausesFrame ==
    UNCHANGED <<cfgVars, runVars, solveVars, loginVars, sendVars, page,
                cookieVars, noteVars, strategy, composeVars, cookieDir>>

\* for (const profile of profiles) / for (let i = 0; i < profiles.length; i++):
\* the CLI variants pause at the top of every iteration, facebook and apify
\* only if (i > 0).
processAll_iterate ==
    /\ pc = "pauses"
    /\ pauses.at = "loop"
    /\ pauses' = IF pauses.i < Len(profiles)
                 THEN [pauses EXCEPT
                         !.i = @ + 1,
                         !.at = IF variant \in {"facebook", "apify"}
                                   /\ pauses.i = 0
                                THEN "send" ELSE "pause"]
                 ELSE [pauses EXCEPT !.at = "done"]
    /\ PausesFrame

\* const pauseTime = ...; await delay(pauseTime);
processAll_delay ==
    /\ pc = "pauses"
    /\ pauses.at = "pause"
    /\ \E t \in pauseTimes(variant, pauses.delayBetweenProfiles) :
         pauses' = [pauses EXCEPT !.pauseTime = t,
                                  !.waited = delay(t),
                                  !.since = @ + 1,
                                  !.at = "send"]
    /\ PausesFrame

\* await sendMessageToProfile(...): the navigation of the target starts; what
\* the pause before it left is dropped when the iteration ends.
processAll_send ==
    /\ pc = "pauses"
    /\ pauses.at = "send"
    /\ pauses' = [pauses EXCEPT !.navs = @ + 1, !.at = "loop",
                                !.pauseTime = 0, !.waited = 0, !.since = 0]
    /\ PausesFrame

NextPauses ==
    \/ processAll_iterate
    \/ processAll_delay
    \/ processAll_send

SpecPauses == InitPauses /\ [][NextPauses]_vars

(***************************************************************************)
(* The session store across identities: COOKIE_DIR of the CLI variants and *)
(* the key-value store of the apify variant, one entry per file name or    *)
(* key.  An identity is a string, here a sequence of characters.           *)
(***************************************************************************)

\* Longest identity string and largest number of store entries followed.
MaxEmailLen == 2
MaxFiles == 2

\* Characters of an identity: one the sanitizer keeps as a letter, the
\* underscore it keeps, one it replaces.
Chars == {"a", "_", "+"}

\* The characters /[^a-z0-9_\-\.@]/gi does not match.
SafeChars == {"a", "_"}

Emails == UNION {[1..n -> Chars] : n \in 1..MaxEmailLen}

\* email.replace(/[^a-z0-9_\-\.@]/gi, '_')
sanitize(email) ==
    [k \in 1..Len(email) |-> IF email[k] \in SafeChars THEN email[k] ELSE "_"]

\* path.join(COOKIE_DIR, `${safe}.json`) / `cookies-${safe}`: directory and
\* extension, or prefix, are the same for every identity.
cookieFilePathFor(v, email) ==
    IF v = "apify" THEN <<"cookies-">> \o sanitize(email)
                   ELSE sanitize(email) \o <<".json">>

\* Cookie sets page.cookies() returns for two different sessions.
SessionCookies == {{"c_user"}, {"c_user", "xs"}}

\* The record the store holds under a name.
FileAt(dir, name) == IF name \in DOMAIN dir THEN dir[name] ELSE AbsentFile

\* fs.writeJson(pathToFile, cookies) / keyValueStore.setValue(cookieKey, cookies)
writeJson(dir, name, cookies) ==
    [n \in DOMAIN dir \cup {name} |->
        IF n = name THEN saveCookies(FileAt(dir, name), cookies) ELSE dir[n]]

\* What loadCookies(page, email) gives the page and returns.
loadCookiesFor(dir, v, email) ==
    loadCookies(v, FileAt(dir, cookieFilePathFor(v, email)), TRUE)

InitDir ==
    /\ variant \in Variants
    /\ profiles = <<>>
    /\ pc = "dir"
    /\ cookieDir = <<>>
    /\ pauses = NoPauses
    /\ UnitRest

DirFrame ==
    UNCHANGED <<cfgVars, runVars, solveVars, loginVars, sendVars, page,
                noteVars, strategy, composeVars, pauses>>

\* saveCookies(page, email)
Dir_saveCookies ==
    /\ pc = "dir"
    /\ \E email \in Emails, cookies \in SessionCookies :
         /\ \/ cookieFilePathFor(variant, email) \in DOMAIN cookieDir
            \/ Cardinality(DOMAIN cookieDir) < MaxFiles
         /\ cookieDir' = writeJson(cookieDir,
                                   cookieFilePathFor(variant, email), cookies)
    /\ loaded' = "none"
    /\ setCalled' = FALSE
    /\ applied' = {}
    /\ UNCHANGED <<file, saves>>
    /\ DirFrame

\* loadCookies(page, email)
Dir_loadCookies ==
    /\ pc = "dir"
    /\ \E email \in Emails :
         LET r == loadCookiesFor(cookieDir, variant, email)
         IN  /\ loaded' = r.result
             /\ setCalled' = r.setCookie
             /\ applied' = r.cookies
    /\ UNCHANGED <<file, saves, cookieDir>>
    /\ DirFrame

NextDir ==
    \/ Dir_saveCookies
    \/ Dir_loadCookies

SpecDir == InitDir /\ [][NextDir]_vars

(***************************************************************************)
(* Properties of the run, one block per claim of the specification.        *)
(***************************************************************************)

\* Positions at which the orchestrator is between two deliveries or past the
\* loop.
BetweenDeliveries == {"loop", "summary", "finally", "returned", "thrown"}

\* The flow is inside the processing of profile number i.
InDelivery == i >= 1 /\ pc \notin BetweenDeliveries

\* C1: when the run completes, results holds exactly one entry per input
\* profile, in input order, the k-th entry carrying the k-th profile's id;
\* failed deliveries are recorded like successful ones and skip nothing.
C1_OneResultPerProfileInOrder ==
    pc = "returned" =>
        /\ Len(results) = Len(profiles)
        /\ \A k \in 1..Len(results) : results[k].profileId = profiles[k]

\* C1 witness: a run of two profiles has completed, the first delivery
\* failed and the second succeeded.
C1_Witness ==
    /\ pc = "returned"
    /\ Len(profiles) = 2
    /\ Len(results) = 2
    /\ ~results[1].success
    /\ results[2].success

\* C2 (as stated): once the browser is launched it is closed exactly once on
\* every exit path of the run, exceptions during page creation and user-agent
\* or header setup included.
C2_BrowserClosedOnEveryExit ==
    (pc \in {"returned", "thrown"} /\ browser # "none") =>
        (closeCount = 1 /\ browser = "closed")

\* C3 (as stated): every entry that reaches results carries durationMs, the
\* entries built by the orchestrator's own catch block included.
C3_EveryResultHasDuration ==
    \A k \in 1..Len(results) : results[k].durationMs

\* C4 (as stated): a login failure before any target is fatal; no target is
\* navigated to afterwards.
C4_LoginFailureIsFatal ==
    loginResult = "failed" => navCount = 0

\* C5 (as stated): after a fatal error that follows k processed targets the
\* caller still receives those k results.
C5_ResultsSurviveFatalError ==
    (variant # "apify" /\ pc = "thrown") => ret.results = results

\* C6: when loginIfNeeded returns { loggedIn: true, reusedCookies: true }
\* (stored cookies loaded, logged-in indicator present), no credential field
\* and no submit control has been touched and the resolver has not been
\* called.
C6_ReuseTouchesNoCredentials ==
    (pc = "login_ret" /\ loginResult = "reused") =>
        /\ store # "absent"
        /\ credOps = 0
        /\ credSubmits = 0
        /\ solverCalls = 0
        /\ saveCount = 0

\* C6 witness: loginIfNeeded has just returned on reused cookies.
C6_Witness ==
    /\ pc = "login_ret"
    /\ loginResult = "reused"
    /\ variant = "enhanced"

\* C7: saveCookies is called only after the post-login authenticated check
\* has passed, once per verified login; the store changes only through such
\* a call; a failed login, an unresolved challenge and a cookie reuse leave
\* the store as it was.
C7_StoreWrittenOnlyAfterVerifiedLogin ==
    /\ saveCount <= verified
    /\ verified <= saveCount + 1
    /\ verified = saveCount + 1 => pc \in {"login_save", "session_save", "send_save"}
    /\ store = "fresh" => saveCount >= 1
    /\ variant # "facebook" =>
          /\ saveCount <= 1
          /\ loginResult \in {"failed", "reused"} => store # "fresh"

\* C7 witness: a fresh credential login was verified and its cookies saved.
C7_Witness ==
    /\ pc = "login_ret"
    /\ variant = "enhanced"
    /\ loginResult = "fresh"
    /\ verified = 1
    /\ saveCount = 1
    /\ store = "fresh"

\* C8: targets are processed strictly one after the other: while any step
\* of target number i runs (pause, navigation, typing, send, recording), the
\* results of the i-1 targets before it, and only those, are in results, in
\* order; between two deliveries results holds one entry per started target
\* unless a fatal error is propagating.
C8_StrictlySequential ==
    /\ InDelivery => Len(results) = i - 1
    /\ (pc \in BetweenDeliveries /\ ~fatal) => Len(results) = i
    /\ \A k \in 1..Len(results) : results[k].profileId = profiles[k]

\* C8 witness: the send trigger of the second target is about to be issued
\* and the first target's result is recorded.
C8_Witness ==
    /\ pc = "send_send"
    /\ i = 2
    /\ typed
    /\ Len(results) = 1

\* C9 (as stated): credentials are submitted at most once per run, and
\* sendMessageToProfile neither submits credentials nor writes the session
\* store.
C9_NoLoginInsideDelivery ==
    /\ credSubmits <= 1
    /\ credInSend = 0
    /\ saveInSend = 0

\* C10 (as stated): in every variant that defines solveCaptcha, a call that
\* finds the detection predicate false returns true at once, with no
\* strategy and no manual wait, headless or not.
C10_NoChallengeReturnsTrueAtOnce ==
    (/\ variant # "basic"
     /\ pc \in {"login_solved", "fb_solved", "send_solved"}
     /\ ~scDetect) =>
        (solved = "true" /\ scStrategies = 0 /\ manualWaits = 0)
\* C11 (as stated): whenever the browser session is headless, through the
\* HEADLESS variable or through the launch option / actor input, solveCaptcha
\* enters no manual wait: zero polls, zero waiting.
C11_HeadlessSkipsManualWait ==
    (sessionHeadless /\ variant # "basic") => manualWaits = 0
\* Position of a strategy in the chain of solveCaptcha.
StrategyRank(st) == CASE st = "audio"   -> 1
                      [] st = "service" -> 2
                      [] OTHER          -> 3

\* Where solveCaptcha (or the hook) has handed its outcome to the caller.
SolverReturned == pc \in {"login_solved", "fb_solved", "send_solved"}

\* C12: within one solveCaptcha call the strategies run in a fixed order:
\* audio first and at most once, the 2captcha service only after audio and
\* only with an API key configured (without a key no request is sent), the
\* manual wait only after them; once a strategy has succeeded the call has
\* returned and no further strategy is invoked.
C12_StrategiesInFixedOrder ==
    variant # "basic" =>
        /\ \A a, b \in 1..Len(scTrace) :
              a < b => /\ StrategyRank(scTrace[a]) <= StrategyRank(scTrace[b])
                       /\ scTrace[a] # scTrace[b] \/ scTrace[a] = "manual"
        /\ \A a \in 1..Len(scTrace) :
              scTrace[a] = "service" =>
                  (apiKey /\ a = 2 /\ scTrace[1] = "audio")
        /\ solved = "true" => SolverReturned

\* C12 witness: a call of the enhanced solveCaptcha went through audio, the
\* service and the manual wait, in this order.
C12_Witness ==
    /\ variant = "enhanced"
    /\ SolverReturned
    /\ scTrace = <<"audio", "service", "manual">>
\* C13 (as stated): solveCaptcha always ends by returning true or false to
\* its caller; a manual wait that times out yields false, not an exception.
C13_ResolverReturnsTrueOrFalse ==
    (SolverReturned /\ variant # "basic") => solved \in {"true", "false"}

\* Errors that name the challenge as the cause of a failed login.
ChallengeErrors == {"captcha", "captcha_timeout", "login_captcha"}

\* C14: when the resolver or the hook hands an unresolved challenge back to
\* the login, the login fails at that point with an error naming the
\* challenge (the hook's own exception if a custom hook threw), never the
\* credential-rejection error; the authenticated check is not passed and no
\* cookies are saved.
C14_UnresolvedChallengeFailsLogin ==
    [][(pc \in {"login_solved", "fb_solved"} /\ solved # "true") =>
          /\ loginError' \in (IF solved = "false"
                              THEN ChallengeErrors
                              ELSE ChallengeErrors \cup {"hook_error"})
          /\ pc' \in {"finally", "loop", "record"}
          /\ pc' = "finally" => fatal'
          /\ pc' = "record" => (~res'.success /\ res'.error \in ChallengeErrors)
          /\ verified' = verified
          /\ saveCount' = saveCount
          /\ store' = store]_vars

\* C14 witness: the enhanced login failed on an unresolved challenge.
C14_Witness ==
    /\ variant = "enhanced"
    /\ pc = "finally"
    /\ loginResult = "failed"
    /\ loginError = "captcha"
    /\ verified = 0
    /\ saveCount = 0


\* C15: when the challenge resolver (or the hook) reports the challenge
\* unresolved during a delivery, by returning false or by raising, the
\* delivery's result has success = false, no message is typed and no send
\* trigger is issued.
C15_UnresolvedChallengeStopsDelivery ==
    challenge = "unresolved" =>
        /\ ~typed
        /\ triggers = 0
        /\ pc = "record" => ~res.success

\* C16: in the apify variant a delivery whose navigation fails twice and then
\* succeeds returns success and reports exactly 3 navigation attempts in the
\* result's diagnostics.
C16_ResultReportsAttempts ==
    (variant = "apify" /\ pc = "record" /\ res.success /\ attempt = maxAttempts) =>
        /\ "attempts" \in DOMAIN res
        /\ res.attempts = maxAttempts

\* The number of pauses the retry loop has taken after `attempt` page loads:
\* one per failed load, the last of maxAttempts excepted.
RetryPauses ==
    IF pc = "send_start" \/ attempt = 0 THEN attempt ELSE attempt - 1

LaterSteps == {"login_check", "scroll", "button_lookup", "input_lookup",
               "type", "send"}

\* C17: the apify navigation retry is bounded.  A target is loaded at most
\* maxAttempts times; the delivery's steps begin with the loads, each failed
\* load but the last followed by one pause, and no load follows the first
\* success; when every load failed the result is the failure naming the
\* exhausted attempts and no later step (login check, scroll, affordance
\* lookup, typing, send) was executed.
C17_NavigationRetryBounded ==
    variant = "apify" =>
        /\ attempt <= maxAttempts
        /\ Len(steps) >= attempt + RetryPauses
        /\ \A k \in 1..Len(steps) :
              /\ steps[k] = "goto" <=> (k % 2 = 1 /\ k <= 2 * attempt - 1)
              /\ steps[k] = "retry_pause" <=> (k % 2 = 0 /\ k <= 2 * RetryPauses)
        /\ (pc = "record" /\ steps # <<>> /\ steps[Len(steps)] = "goto") =>
              /\ attempt = maxAttempts
              /\ ~res.success
              /\ res.error = "navigation_exhausted"
        /\ (pc = "record" /\ res.error = "navigation_exhausted") =>
              /\ attempt = maxAttempts
              /\ \A k \in 1..Len(steps) : steps[k] \notin LaterSteps
              /\ ~typed
              /\ triggers = 0
              /\ btn = "No"
              /\ sent = "No"

C17_Witness ==
    /\ variant = "apify"
    /\ pc = "record"
    /\ res.error = "navigation_exhausted"
    /\ steps = <<"goto", "retry_pause", "goto", "retry_pause", "goto">>


\* C18: loadCookies for an identity with no record in the store returns
\* false, does not raise and sets no cookie on the page; an absent record is
\* not treated as a present, empty one, for which page.setCookie is called.
C18_AbsentRecordLoadsFalse ==
    /\ file.kind = "absent" =>
          /\ loaded \in {"none", "false"}
          /\ ~setCalled
          /\ applied = {}
    /\ (file = StoredFile({}) /\ loaded # "none") => setCalled

C18_Witness ==
    /\ pc = "store"
    /\ file.kind = "absent"
    /\ saves = <<>>
    /\ loaded = "false"

\* C19: when the stored record cannot be loaded (corrupt or unreadable
\* record, store failure) loadCookies returns false and never raises.
C19_LoadFailureReturnsFalse ==
    /\ loaded # "threw"
    /\ (file.kind = "corrupt" /\ loaded # "none") => loaded = "false"

\* C20: saveCookies replaces the stored set.  After one or more saves the
\* record holds exactly the set saved last, whatever was stored before (so
\* saving B after A leaves B, and saving B twice leaves B), and a load that
\* follows gives page.setCookie exactly that set.
C20_SaveReplacesStoredSet ==
    saves # <<>> =>
        /\ file = StoredFile(saves[Len(saves)])
        /\ loaded # "none" =>
              /\ loaded \in {"true", "false"}
              /\ setCalled
              /\ applied = saves[Len(saves)]

C20_Witness ==
    /\ pc = "store"
    /\ saves = <<{"c_user", "xs"}, {"xs"}>>
    /\ loaded = "true"
    /\ applied = {"xs"}


\* The delivery ended at the lookup of the messaging affordance: the message
\* button (apify) or, the button missing, the direct compose area (facebook)
\* was not on the page.
AffordanceNeverFound ==
    /\ variant \in {"facebook", "apify"}
    /\ pc = "record"
    /\ steps # <<>>
    /\ steps[Len(steps)] \in {"button_lookup", "area_lookup"}

NotFoundCauses == {"no_messaging_interface", "profile_unavailable"}

\* C21: when the destination never exposes a messaging affordance the
\* target's result is a failure with the not-found cause and the diagnostics
\* messageButtonPresent "No" and messageSent "No"; nothing is typed and no
\* send trigger is issued.
C21_NoAffordanceFailsWithDiagnostics ==
    AffordanceNeverFound =>
        /\ ~res.success
        /\ res.error \in NotFoundCauses
        /\ res.btn = "No"
        /\ res.sent = "No"
        /\ ~typed
        /\ triggers = 0


\* The delivery ended at the lookup of the message input.
InputNeverFound ==
    /\ variant \in {"facebook", "apify"}
    /\ pc = "record"
    /\ steps # <<>>
    /\ steps[Len(steps)] = "input_lookup"

\* C22: the affordance lookup and the input lookup are two ordered failure
\* points with different causes: the input is looked up only after the
\* affordance was looked up and found, and a failure at the input lookup
\* carries a cause that no failure at the affordance lookup carries.
C22_TwoDistinctLookupFailures ==
    /\ \A k \in 1..Len(steps) :
          steps[k] = "input_lookup" =>
              \E j \in 1..(k - 1) : steps[j] = "button_lookup"
    /\ InputNeverFound =>
          /\ ~res.success
          /\ res.error \notin NotFoundCauses
    /\ AffordanceNeverFound =>
          /\ ~res.success
          /\ res.error \in NotFoundCauses


\* C23: with a delivery-confirmation selector configured, a delivery returns
\* success = true only if the indicator was present after the send trigger;
\* an absent indicator gives a failure although the send trigger was issued.
C23_SuccessNeedsConfirmation ==
    (variant \in {"basic", "enhanced"} /\ confirmSel /\ pc = "record") =>
        /\ res.success => (sentCheck = "present" /\ triggers >= 1)
        /\ sentCheck = "absent" =>
              /\ ~res.success
              /\ res.error = "no_confirmation"
              /\ typed
              /\ triggers >= 1
        /\ sentCheck # "NA" <=> (steps # <<>> /\ steps[Len(steps)] = "send")

C23_Witness ==
    /\ variant = "enhanced"
    /\ confirmSel
    /\ pc = "record"
    /\ sentCheck = "absent"
    /\ triggers = 1
    /\ ~res.success



\* The causes that say no more than that the login surface is still shown:
\* "Login failed: Still on login page" and "Login appears to have failed".
GenericLoginCauses == {"still_on_login_page", "credentials"}

\* C24: when the page still requires login after the credentials were
\* submitted, the login does not succeed: the authenticated check is not
\* passed, no cookies are saved, and the failure cause is the text of the
\* error element when one with text is on the page, else the generic
\* "still on login page" cause.
C24_FailedLoginSurfacesErrorText ==
    [][(pc \in {"login_verify", "fb_verify"} /\ loginAlert' # "NA") =>
          /\ verified' = verified
          /\ saveCount' = saveCount
          /\ pc' \notin {"login_save", "session_save", "send_save"}
          /\ loginResult' # "fresh"
          /\ loginAlert' = "text" => loginError' = "login_error_text"
          /\ loginAlert' = "none" => loginError' \in GenericLoginCauses]_vars


\* C25: solve2Captcha polls the status endpoint after a fixed delay of
\* solve2Captcha_delay_ms each time and at most solve2Captcha_maxAttempts
\* times; when the answer is still not ready after the last allowed poll it
\* returns false; a rejected submit, an error response and a failed request
\* return false as well; the call never raises.
C25_PollingIsBoundedAndReturnsFalse ==
    strategy.fn = "solve2Captcha" =>
        /\ strategy.attempts <= solve2Captcha_maxAttempts
        /\ strategy.polls <= solve2Captcha_maxAttempts
        /\ strategy.submits <= 1
        /\ strategy.waitedMs = solve2Captcha_delay_ms *
               (strategy.polls + IF strategy.at = "poll" THEN 1 ELSE 0)
        /\ strategy.at \in {"entry", "submit", "loop", "poll", "inject", "returned"}
        /\ strategy.at = "returned" <=> strategy.result \in {"true", "false"}
        /\ (strategy.at = "returned" /\ strategy.last # "OK") =>
              strategy.result = "false"
        /\ (strategy.at = "returned" /\ strategy.last = "CAPCHA_NOT_READY") =>
              /\ strategy.attempts = solve2Captcha_maxAttempts
              /\ strategy.polls = solve2Captcha_maxAttempts

C25_Witness ==
    /\ pc = "strategy"
    /\ strategy.fn = "solve2Captcha"
    /\ strategy.at = "returned"
    /\ strategy.result = "false"
    /\ strategy.last = "CAPCHA_NOT_READY"
    /\ strategy.polls = 30
    /\ strategy.waitedMs = 300000

\* C26: solve2Captcha returns true only if the token was written into the
\* page's verification-response field and the page's registered callback,
\* if there is one, was called with it.
C26_TrueOnlyAfterInjection ==
    (strategy.fn = "solve2Captcha" /\ strategy.result = "true") =>
        /\ strategy.injected
        /\ strategy.callback => strategy.called

\* C27: solveRecaptchaAudio returns true only after an answer was obtained,
\* entered and submitted and the re-check showed no error; otherwise it
\* returns false.
C27_AudioTrueOnlyAfterSubmittedAnswer ==
    (strategy.fn = "solveRecaptchaAudio" /\ strategy.result = "true") =>
        /\ strategy.answered
        /\ strategy.entered
        /\ strategy.verifyClicked
        /\ strategy.rechecked

\* C28: every wait is bounded, so a call of a strategy, and with it the
\* run, always ends: it returns or raises.
C28_EveryStrategyCallEnds ==
    <>(strategy.at \in {"returned", "crashed"})


\* C29: the password is written to the password field of the login form and
\* to nothing else: no console line, result, sink record or session store
\* entry is built from it.
C29_PasswordReachesOnlyItsField ==
    \A c \in Channels \ {"field"} : "password" \notin flows[c]

C29_Witness ==
    /\ "password" \in flows["field"]
    /\ "cookies" \in flows["store"]
    /\ "error_text" \in flows["sink"]
    /\ "error_text" \in flows["log"]
    /\ pc = "returned"


(* The login path of the scenario: stored cookies were reloaded (or there    *)
(* were none), the logged-in indicator was absent, the form was filled,      *)
(* submitted, no challenge was detected and the indicator then appeared.     *)
FreshLoginSteps ==
    {<<"load_cookies", "reuse_goto", "goto_login", "type_email",
       "type_password", "submit", "captcha_check", "verify", "save_cookies">>,
     <<"load_cookies", "goto_login", "type_email",
       "type_password", "submit", "captcha_check", "verify", "save_cookies">>}

(* The delivery path of the scenario: the profile page loaded at the first   *)
(* navigation, no challenge, message box found, message typed and sent.      *)
CleanDeliverySteps ==
    <<"goto", "scroll", "captcha_check", "box_lookup", "type", "send">>

ScenarioRun ==
    /\ variant = "enhanced"
    /\ Len(profiles) = 1
    /\ loginSteps \in FreshLoginSteps
    /\ solverCalls = 0
    /\ loginResult = "fresh"

(* C30: in the enhanced variant, when the logged-in indicator is absent      *)
(* after the cookie reload, the login form is present, login succeeds with   *)
(* no challenge, the single target loads, its message box is found and the   *)
(* confirmation indicator appears, then the credentials were submitted       *)
(* exactly once, the cookies were saved, the run navigated once to the       *)
(* target, typed and sent the message once, and the result of the delivery   *)
(* is the success record of that target; the run then returns exactly one    *)
(* result, and it is that record whenever the result log accepted it.        *)
C30_FreshLoginThenOneDelivery ==
    /\ (ScenarioRun /\ pc = "record" /\ steps = CleanDeliverySteps
          /\ sentCheck \in {"present", "NA"})
         => /\ credSubmits = 1
            /\ credOps = 3
            /\ saveCount = 1
            /\ store = "fresh"
            /\ navCount = 1
            /\ typed
            /\ triggers = 1
            /\ res.success
            /\ res.profileId = profiles[1]
            /\ results = <<>>
    /\ (ScenarioRun /\ pc = "returned")
         => /\ ret.kind = "results"
            /\ Len(ret.results) = 1
            /\ ret.results[1].profileId = profiles[1]
            /\ ret.results = results
            /\ credSubmits = 1
            /\ saveCount = 1
            /\ (sink # <<>> /\ sink[1].success
                  => ret.results[1].success /\ Len(sink) = 1)

C30_Witness ==
    /\ ScenarioRun
    /\ pc = "returned"
    /\ confirmSel
    /\ Len(ret.results) = 1
    /\ ret.results[1].profileId = profiles[1]
    /\ ret.results[1].success
    /\ sink = ret.results


(***************************************************************************)
(* The send trigger, the compose step and humanClick.                      *)
(***************************************************************************)

\* The send step of the current delivery has run.
SendStepDone == steps # <<>> /\ steps[Len(steps)] = "send"

\* C31: for each target at most one send trigger is issued, and only after
\* the navigation succeeded and the message was typed; the trigger is one
\* click when a send control was found and one Enter key press otherwise,
\* never both, and never neither once the send step has run, so in
\* particular never neither on a successful delivery.
C31_OneSendTriggerPerTarget ==
    /\ triggers <= 1
    /\ dispatch.clicks + dispatch.enters = triggers
    /\ triggers >= 1 => typed /\ steps[1] = "goto" /\ navCount >= 1
    /\ SendStepDone =>
          IF dispatch.control
          THEN dispatch.clicks = 1 /\ dispatch.enters = 0
          ELSE dispatch.clicks = 0 /\ dispatch.enters = 1
    /\ (pc = "record" /\ res.success) => triggers = 1


\* C32: before the navigation of every target but the first exactly one
\* pause was made since the previous target, and the duration of every pause
\* is non-negative and within the configured bounds: delayBetweenProfiles
\* plus or minus 1000 ms in the apify variant, the fixed range in the others.
C32_OnePauseWithinBounds ==
    (pc = "pauses" /\ pauses.at = "send") =>
        /\ pauses.i > 1 => pauses.since = 1
        /\ pauses.since <= 1
        /\ pauses.since = 1 =>
              /\ pauses.pauseTime >= 0
              /\ pauses.pauseTime
                    \in pauseBounds(variant, pauses.delayBetweenProfiles)


\* C33: a humanClick call dispatches exactly one click whether or not the
\* element has a bounding box: along a pointer path when it has one, as a
\* direct click on the element when it has none.  Observed at the call the
\* send step makes on a send control it found.
C33_HumanClickAlwaysClicks ==
    (variant \in {"enhanced", "facebook", "apify"} /\ SendStepDone
       /\ dispatch.control)
      => /\ dispatch.clicks = 1
         /\ dispatch.enters = 0


\* C34: once the message was typed, the compose surface holds exactly the
\* message text, whatever it held before, in every variant.
C34_ComposeHoldsOnlyTheMessage ==
    typed => compose = <<"message">>


\* waitForManualCaptchaSolve: maxWait = 5 * 60 * 1000 ms, pollInterval = 3000 ms.
manualWait_maxWait == 300000
manualWait_pollInterval == 3000

\* The longest the manual waits entered by the last resolver call can have
\* lasted, each wait polling until waited reaches maxWait.
ManualWaitMs == manualWaits * manualWait_maxWait

\* C35: within one solveCaptcha call of the enhanced variant the manual wait
\* is entered at most once, so the call never waits longer than one manual
\* wait timeout (at most 100 polls, 3 s apart), also when that wait times out.
C35_ManualWaitEnteredOnce ==
    variant = "enhanced" =>
        /\ manualWaits <= 1
        /\ ManualWaitMs <= manualWait_maxWait
        /\ ManualWaitMs \div manualWait_pollInterval <= 100


\* The detection predicate of the caller that invoked the resolver: the login
\* of the facebook and apify variants also reads the keyword text, every
\* other caller reads the embed and the overlay.
CallerPredicate(p) ==
    IF solverCaller = "performFacebookLogin" THEN loginCaptchaPresent(p)
                                             ELSE captchaPresent(p)

\* The resolver answered from its own reading of the page: at entry, with no
\* strategy invoked, or at the end of a manual wait.
ClearedByPredicate ==
    /\ solved = "true"
    /\ scTrace = <<>> \/ scTrace[Len(scTrace)] = "manual"

\* C36: when solveCaptcha reports the challenge cleared from its own reading
\* of the page, at entry or in the manual wait, the detection predicate of
\* the caller that triggered the resolution is false on that page.
C36_ClearedMeansCallerPredicateFalse ==
    (SolverReturned /\ variant # "basic" /\ ClearedByPredicate)
        => ~CallerPredicate(page)


\* C37: distinct identities never share a stored artifact set: a step that
\* is saveCookies for an identity e1 leaves what loadCookies returns for
\* every other identity e2 as it was.
C37_IdentitiesDoNotShareStore ==
    [][\A e1 \in Emails, e2 \in Emails, cookies \in SessionCookies :
          (/\ pc = "dir"
           /\ e1 # e2
           /\ cookieDir # cookieDir'
           /\ cookieDir' = writeJson(cookieDir,
                                     cookieFilePathFor(variant, e1), cookies))
            => loadCookiesFor(cookieDir', variant, e2)
                 = loadCookiesFor(cookieDir, variant, e2)]_vars


\* The entries a step appended to a sequence.
Appended(old, new) == {new[k] : k \in (Len(old) + 1)..Len(new)}

\* C38: the outcome recorded for a target is the outcome its delivery
\* produced, also when a write to the result sink fails: while the delivery
\* of the current target has returned success, no step records a failure in
\* the sink or in results; and when the run completes normally the sink
\* holds one record per target, in target order, agreeing with results on
\* profileId and success.
C38_RecordedOutcomeIsDeliveryOutcome ==
    [][/\ (pc \in {"record", "record_fail"} /\ res.success) =>
              /\ \A r \in Appended(results, results') : r.success
              /\ \A r \in Appended(sink, sink') : r.success
       /\ pc' = "returned" =>
              /\ Len(sink') = Len(profiles)
              /\ \A k \in 1..Len(sink') :
                    /\ sink'[k].profileId = profiles[k]
                    /\ sink'[k].profileId = results'[k].profileId
                    /\ sink'[k].success = results'[k].success]_vars


\* C39: in every result of the apify variant's sendMessageToProfile the
\* diagnostic flags agree with the outcome: success implies
\* messageButtonPresent 'Yes' and messageSent 'Yes', failure implies
\* messageSent 'No', and messageSent 'Yes' implies messageButtonPresent 'Yes'
\* and that a send trigger, a click on the send control or an Enter key
\* press, was dispatched to the page.
C39_DiagnosticFlagsMatchOutcome ==
    (variant = "apify" /\ pc = "record") =>
        /\ res.success => res.btn = "Yes" /\ res.sent = "Yes"
        /\ ~res.success => res.sent = "No"
        /\ res.sent = "Yes" =>
              /\ res.btn = "Yes"
              /\ dispatch.clicks + dispatch.enters >= 1

====
